---- MODULE Spec2Model ----
(***************************************************************************)
(* NebulusChain: the block chain with its pending pool and miner           *)
(* (src/core/blockchain), the asset ledger (src/core/asset) and the peer   *)
(* node with its consensus tally (src/core/identity), as state machines.   *)
(*                                                                         *)
(* Four specifications share the variables below; each leaves the other    *)
(* components' variables at their initial values:                          *)
(*   Spec           the chain, the pool, the miner and the block store     *)
(*   SpecAsset      the asset ledger over the chain's pool and miner       *)
(*   SpecConsensus  the validation tally of a node                         *)
(*   SpecPeer       the connected-peer set of a node                       *)
(***************************************************************************)
EXTENDS Integers, Sequences, FiniteSets, TLC

VARIABLES
  \* Blockchain (blockchain.ts:13-19) and its data directory
  open,                 \* a Blockchain instance exists in the process
  chain,                \* this.chain
  pendingTransactions,  \* this.pendingTransactions
  miningInterval,       \* this.miningInterval holds a timer handle
  timers,               \* the live interval timers of this instance
  difficulty,           \* this.difficulty
  maxTransactionsPerBlock,
  disk,                 \* the block files of dataDir, one per hash
  diskOk,               \* writes to dataDir succeed
  now,                  \* Date.now()
  nextId,               \* the next record a client submits
  lastOp,               \* the last call, its arguments, its result, its event
  \* AssetManager (asset.ts:49-53) and its directory
  assets,               \* this.assets
  balances,             \* this.balances
  assetFiles,           \* the asset files of assetsDir, one per id
  \* WalletManager (Wallet.ts:41-42) and its directory
  wallets,              \* this.wallets, as address -> balance
  walletFiles,          \* the wallet files of walletsDir, one per address
  \* Node (identity.ts:426-430), its BootstrapManager and the caller's tally
  isRunning,            \* this.isRunning
  connectedPeers,       \* this.connectedPeers
  bootstrapNodes,       \* bootstrapManager.nodes
  bootstrapCache,       \* the bootstrap cache file
  port,                 \* this.port
  validations           \* the Map<string, ValidationResult[]> of the caller

chainVars == <<open, chain, pendingTransactions, miningInterval, timers,
               difficulty,
               maxTransactionsPerBlock, disk, diskOk, now, nextId>>
assetVars == <<assets, balances, assetFiles>>
walletVars == <<wallets, walletFiles>>
peerVars == <<isRunning, connectedPeers, bootstrapNodes, bootstrapCache, port>>
vars == <<chainVars, assetVars, walletVars, peerVars, validations, lastOp>>

(***************************************************************************)
(* Bounds of the model.                                                    *)
(***************************************************************************)
MaxDifficulty == 1   \* difficulty ranges over 0..MaxDifficulty
MaxBatch == 2        \* maxTransactionsPerBlock ranges over 1..MaxBatch
MaxRecords == 2      \* records a client submits in one run
MaxChain == 3        \* no block is appended to a chain of this length
MaxTime == 2         \* Date.now() ranges over 1..MaxTime
MaxAmount == 2       \* amounts and supplies range over 0..MaxAmount
MaxLedgerRecords == 4 \* records the asset ledger submits in one run
MaxValidations == 4  \* validation responses a tally receives in one run
MaxMineDifficulty == 3 \* mineBlock(difficulty) of a block on its own
MaxSyncBlocks == 2     \* blocks in one SYNC_RESPONSE
MaxWalletRecords == 3  \* wallet transactions submitted in one run

Min(a, b) == IF a <= b THEN a ELSE b

(***************************************************************************)
(* Hashing.  hashData (src/core/utils/hash) is a SHA-256 hex digest: it is *)
(* taken as collision free, so a digest is represented by its preimage;    *)
(* ZeroHash stands for the string "0", which is the digest of nothing.     *)
(* The number of leading '0' characters of a digest is a fixed function of *)
(* the preimage; Ruler makes a digest with d leading zeros turn up once in *)
(* every 2^d consecutive nonces, as one in 16^d does for SHA-256.          *)
(***************************************************************************)
RECURSIVE Ruler(_)
Ruler(x) == IF x % 2 = 1 THEN 0 ELSE 1 + Ruler(x \div 2)

hashData(s) == [pre |-> s]

ZeroHash == [pre |-> <<>>]

\* A payload is a record: [array |-> <<...>>] for a JavaScript array, and the
\* object's own fields (or [text |-> s] for a string) otherwise.
IsArray(payload) == "array" \in DOMAIN payload

\* What JSON.stringify(data) contributes to the digest's leading zeros.
DataWeight(data) ==
  Len(data.signatures) + data.requiredSigners
    + (IF IsArray(data.payload) THEN Len(data.payload.array) ELSE 0)

\* The number of leading '0' characters of a hash string.
LeadingZeros(h) ==
  IF h = ZeroHash THEN 1
  ELSE Ruler(1 + h.pre[2] + DataWeight(h.pre[3]) + h.pre[4])

(***************************************************************************)
(* Block (block.ts:58-124).  A block is the record of its five fields and  *)
(* impl: TRUE for a BlockImpl instance, FALSE for a plain object (what     *)
(* JSON.parse gives), which has the fields and none of the methods.        *)
(***************************************************************************)
calculateHash(b) ==
  hashData(<<b.previousHash, b.timestamp, b.data, b.nonce>>)

\* new BlockImpl(timestamp, data, previousHash)
BlockImpl(timestamp, data, previousHash) ==
  LET b0 == [timestamp |-> timestamp, data |-> data,
             previousHash |-> previousHash, nonce |-> 0, impl |-> TRUE]
  IN [timestamp |-> timestamp, data |-> data, previousHash |-> previousHash,
      nonce |-> 0, impl |-> TRUE, hash |-> calculateHash(b0)]

\* hash.substring(0, d - 1) in place of hash.substring(0, d)
MeetsTargetShort(h, d) == LeadingZeros(h) >= d - 1

\* hash.substring(0, d) === Array(d + 1).join('0')
MeetsTarget(h, d) == LeadingZeros(h) >= d

\* this.nonce++; this.hash = this.calculateHash()
mineStepStale(b) ==
  [b EXCEPT !.nonce = b.nonce + 1, !.hash = calculateHash(b)]

mineStep(b) ==
  LET b1 == [b EXCEPT !.nonce = b.nonce + 1]
  IN [b1 EXCEPT !.hash = calculateHash(b1)]

RECURSIVE mineBlock(_, _)
mineBlock(b, d) ==
  IF MeetsTarget(b.hash, d) THEN b
  ELSE mineBlock(mineStep(b), d)

isValid(b) == b.hash = calculateHash(b)

hasEnoughSignatures(b) ==
  Len(b.data.signatures) >= b.data.requiredSigners

(***************************************************************************)
(* The block store: saveBlock writes JSON.stringify(block) to <hash>.json, *)
(* loadChain reads every file back and sorts by timestamp.                 *)
(***************************************************************************)
\* JSON.stringify(block): the five fields, no methods.
ToJson(b) ==
  [timestamp |-> b.timestamp, data |-> b.data,
   previousHash |-> b.previousHash, hash |-> b.hash, nonce |-> b.nonce]

\* JSON.parse(file) as Block: a plain object.
FromJson(f) ==
  [timestamp |-> f.timestamp, data |-> f.data,
   previousHash |-> f.previousHash, hash |-> f.hash, nonce |-> f.nonce,
   impl |-> FALSE]

\* A file <hash>.json whose content JSON.parse refuses.
MalformedFile(hash) == [hash |-> hash, malformed |-> TRUE]

Malformed(f) == "malformed" \in DOMAIN f

\* fs.writeFileSync(<hash>.json, ...): a file of the same name is replaced.
saveBlock(files, b) ==
  {f \in files : f.hash # b.hash} \cup {ToJson(b)}

\* The orders files.sort((a, b) => a.timestamp - b.timestamp) can give: the
\* sort is stable over the order readdirSync lists the files in (by name,
\* that is by hash, or as the file system has them), so files of equal
\* timestamp come in any order.
RECURSIVE SortedLoads(_)
SortedLoads(files) ==
  IF files = {} THEN {<<>>}
  ELSE LET first == {f \in files :
                       \A g \in files : f.timestamp <= g.timestamp}
       IN UNION {{<<FromJson(f)>> \o s : s \in SortedLoads(files \ {f})} :
                 f \in first}

(***************************************************************************)
(* Blockchain (blockchain.ts).                                             *)
(***************************************************************************)
genesisData ==
  [type |-> "identity",
   payload |-> [text |-> "Genesis Block - Nebulus Network"],
   signatures |-> <<>>, requiredSigners |-> 0]

\* this.chain[this.chain.length - 1]
getFirstBlock(c) == c[1]
getLatestBlock(c) == c[Len(c)]

\* isChainValid: "true", "false", or "TypeError" when the loop reaches a
\* block that has no calculateHash method.
RECURSIVE isChainValidFrom(_, _)
isChainValidFrom(c, i) ==
  IF i > Len(c) THEN "true"
  ELSE IF ~c[i].impl THEN "TypeError"
  ELSE IF c[i].hash # calculateHash(c[i]) THEN "false"
  ELSE IF c[i].previousHash # c[i - 1].hash THEN "false"
  ELSE IF ~hasEnoughSignatures(c[i]) THEN "false"
  ELSE isChainValidFrom(c, i + 1)

isChainValid(c) == isChainValidFrom(c, 2)

NoEvent == [name |-> "none"]

\* emit('block:validated', {blockHash, validatorAddress, timestamp})
BlockValidatedAlways(b, validatorAddress) ==
  [name |-> "block:validated", blockHash |-> b.hash,
   validatorAddress |-> validatorAddress]

BlockValidated(b, validatorAddress) ==
  IF validatorAddress # ""
  THEN [name |-> "block:validated", blockHash |-> b.hash,
        validatorAddress |-> validatorAddress]
  ELSE NoEvent


(***************************************************************************)
(* Inputs.                                                                 *)
(***************************************************************************)
\* The records a client submits: record id, signed by its one required
\* signer or by nobody.
ClientRecords(id) ==
  {[type |-> "custom", payload |-> [id |-> id],
    signatures |-> sigs, requiredSigners |-> 1] : sigs \in {<<>>, <<"sig">>}}

\* validatorAddress: "" is the argument left out.
ValidatorAddresses == {"", "validator"}

\* The blocks a peer can hand over.  Candidate(t, sigs, p, ok, impl) has
\* timestamp t, a record with signatures sigs of 1 required, previousHash p,
\* its own hash (ok) or the hash of another nonce, and is a BlockImpl (impl)
\* or a plain object.
Candidate(t, sigs, p, ok, impl) ==
  LET data == [type |-> "custom", payload |-> [id |-> 0],
               signatures |-> sigs, requiredSigners |-> 1]
  IN [timestamp |-> t, data |-> data, previousHash |-> p, nonce |-> 0,
      impl |-> impl,
      hash |-> calculateHash([timestamp |-> t, data |-> data,
                              previousHash |-> p,
                              nonce |-> IF ok THEN 0 ELSE 1])]

\* Blocks that pass every check (at any timestamp), blocks with one defect
\* and blocks with two.
ExternalBlocks ==
  IF chain = <<>> THEN {}
  ELSE
  LET tip == getLatestBlock(chain).hash
      others == {chain[1].hash, ZeroHash} \ {tip}
  IN {Candidate(t, <<"sig">>, tip, TRUE, TRUE) : t \in 1..MaxTime}
       \cup {Candidate(now, <<"sig">>, tip, FALSE, TRUE),
             Candidate(now, <<"sig">>, tip, TRUE, FALSE),
             Candidate(now, <<>>, tip, TRUE, TRUE),
             Candidate(now, <<>>, tip, FALSE, TRUE)}
       \cup {Candidate(now, sigs, p, ok, TRUE) :
               sigs \in {<<>>, <<"sig">>}, p \in others, ok \in BOOLEAN}

(***************************************************************************)
(* Blockchain operations.                                                  *)
(***************************************************************************)
\* setInterval and clearInterval, on the number of live timers.
setInterval(n) == n + 1

clearIntervalLeak(n) == n

clearInterval(n) == n - 1

\* The number of records splice(0, maxTransactionsPerBlock) removes.
BatchCountAll(pool, m) == Len(pool)

BatchCount(pool, m) == Min(Len(pool), m)

\* What splice(0, n) leaves in the pool.
SplicedKeepsLast(pool, n) == SubSeq(pool, n, Len(pool))

Spliced(pool, n) == SubSeq(pool, n + 1, Len(pool))

\* this.pendingTransactions.length === 0
PoolEmptyNever(pool) == FALSE

PoolEmpty(pool) == Len(pool) = 0

\* mineNextBlock(validatorAddress) on the pool `pool`, called as `op` with
\* the arguments `args`.
mineNextBlockOn(pool, validatorAddress, op, args) ==
  IF PoolEmpty(pool)
  THEN /\ pendingTransactions' = pool
       /\ UNCHANGED <<chain, disk>>
       /\ lastOp' = [op |-> op, ret |-> "null", args |-> args,
                     event |-> NoEvent]
  ELSE LET n == BatchCount(pool, maxTransactionsPerBlock)
           transactionsForBlock == SubSeq(pool, 1, n)
           blockData == [type |-> "transaction_batch",
                         payload |-> [array |-> transactionsForBlock],
                         signatures |-> <<>>, requiredSigners |-> 0]
           newBlock == mineBlock(
                         BlockImpl(now, blockData, getLatestBlock(chain).hash),
                         difficulty)
       IN /\ pendingTransactions' = Spliced(pool, n)
          /\ chain' = Append(chain, newBlock)
          /\ IF diskOk
             THEN /\ disk' = saveBlock(disk, newBlock)
                  /\ lastOp' = [op |-> op, ret |-> "block", args |-> args,
                                event |-> BlockValidated(newBlock,
                                                         validatorAddress)]
             ELSE \* writeFileSync throws out of mineNextBlock
                  /\ disk' = disk
                  /\ lastOp' = [op |-> op, ret |-> "throws", args |-> args,
                                event |-> NoEvent]

\* new Blockchain(dataDir, ...) in a process that has none: loadChain, the
\* genesis block for an empty directory, startMining.
\* this.chain.length === 0 after loadChain
NeedsGenesisAlways(loaded) == TRUE

NeedsGenesis(loaded) == Len(loaded) = 0

Open ==
  /\ ~open
  /\ disk = {} => diskOk
  /\ IF \E f \in disk : Malformed(f)
     THEN \* JSON.parse throws out of loadChain and out of the constructor
          /\ lastOp' = [op |-> "open", ret |-> "throws", event |-> NoEvent]
          /\ UNCHANGED <<open, chain, disk, pendingTransactions,
                         miningInterval, timers>>
     ELSE /\ open' = TRUE
          /\ \E loaded \in SortedLoads(disk) :
               IF NeedsGenesis(loaded)
               THEN LET genesisBlock == BlockImpl(now, genesisData, ZeroHash)
                    IN /\ chain' = Append(loaded, genesisBlock)
                       /\ disk' = saveBlock(disk, genesisBlock)
               ELSE /\ chain' = loaded
                    /\ disk' = disk
          /\ pendingTransactions' = <<>>
          /\ miningInterval' = TRUE
          /\ timers' = setInterval(timers)
          /\ lastOp' = [op |-> "open", ret |-> "chain", event |-> NoEvent]
  /\ UNCHANGED <<difficulty, maxTransactionsPerBlock, diskOk, now, nextId>>

\* The process ends: the instance, its pool and its timer are gone.
Close ==
  /\ open
  /\ open' = FALSE
  /\ chain' = <<>>
  /\ pendingTransactions' = <<>>
  /\ miningInterval' = FALSE
  /\ timers' = 0
  /\ lastOp' = [op |-> "close", ret |-> "", event |-> NoEvent,
                chain |-> chain]
  /\ UNCHANGED <<difficulty, maxTransactionsPerBlock, disk, diskOk, now,
                 nextId>>

AddTransaction(data) ==
  /\ open
  /\ nextId <= MaxRecords
  /\ pendingTransactions' = Append(pendingTransactions, data)
  /\ nextId' = nextId + 1
  /\ lastOp' = [op |-> "addTransaction", ret |-> "true", event |-> NoEvent]
  /\ UNCHANGED <<open, chain, miningInterval, timers, difficulty,
                 maxTransactionsPerBlock, disk, diskOk, now>>

StartMining ==
  /\ open
  /\ miningInterval' = TRUE
  /\ timers' = setInterval(IF miningInterval THEN clearInterval(timers)
                           ELSE timers)
  /\ lastOp' = [op |-> "startMining", ret |-> "", event |-> NoEvent]
  /\ UNCHANGED <<open, chain, pendingTransactions, difficulty,
                 maxTransactionsPerBlock, disk, diskOk, now, nextId>>

StopMining ==
  /\ open
  /\ IF miningInterval
     THEN /\ timers' = clearInterval(timers)
          /\ miningInterval' = FALSE
     ELSE UNCHANGED <<miningInterval, timers>>
  /\ lastOp' = [op |-> "stopMining", ret |-> "", event |-> NoEvent]
  /\ UNCHANGED <<open, chain, pendingTransactions, difficulty,
                 maxTransactionsPerBlock, disk, diskOk, now, nextId>>

\* this.pendingTransactions.length > 0
TimerFiresOnBacklog(pool) == Len(pool) > 1

TimerFires(pool) == Len(pool) > 0

\* The setInterval callback of startMining.
TimerTick ==
  /\ open
  /\ timers > 0
  /\ TimerFires(pendingTransactions)
  /\ Len(chain) < MaxChain
  /\ mineNextBlockOn(pendingTransactions, "", "timer", [none |-> TRUE])
  /\ UNCHANGED <<open, miningInterval, timers, difficulty, maxTransactionsPerBlock,
                 diskOk, now, nextId>>

MineNextBlock(validatorAddress) ==
  /\ open
  /\ Len(chain) < MaxChain
  /\ mineNextBlockOn(pendingTransactions, validatorAddress, "mineNextBlock",
                     [validatorAddress |-> validatorAddress])
  /\ UNCHANGED <<open, miningInterval, timers, difficulty, maxTransactionsPerBlock,
                 diskOk, now, nextId>>

\* addBlock(data): addTransaction, then mineNextBlock().
AddBlock(data) ==
  /\ open
  /\ nextId <= MaxRecords
  /\ Len(chain) < MaxChain
  /\ mineNextBlockOn(Append(pendingTransactions, data), "", "addBlock",
                     [data |-> data])
  /\ nextId' = nextId + 1
  /\ UNCHANGED <<open, miningInterval, timers, difficulty, maxTransactionsPerBlock,
                 diskOk, now>>

\* block.previousHash !== latestBlock.hash, negated
PointsAtKnownBlock(block, c) ==
  \E k \in 1..Len(c) : c[k].hash = block.previousHash

PointsAtTip(block, c) == block.previousHash = getLatestBlock(c).hash

\* addMinedBlock(block) on chain c over the files of dataDir: what it
\* returns, the message it logs, and the chain and files it leaves.
addMinedBlock(c, files, writes, block) ==
  LET rejected(reason) == [ret |-> "false", reason |-> reason,
                           chain |-> c, disk |-> files]
  IN IF ~block.impl
     THEN rejected("TypeError")      \* block.isValid is not a function
     ELSE IF ~isValid(block)
     THEN rejected("hash")
     ELSE IF ~PointsAtTip(block, c)
     THEN rejected("pointer")
     ELSE IF ~hasEnoughSignatures(block)
     THEN rejected("signatures")
     ELSE IF writes
     THEN [ret |-> "true", reason |-> "", chain |-> Append(c, block),
           disk |-> saveBlock(files, block)]
     ELSE \* writeFileSync throws into the catch
          [ret |-> "false", reason |-> "error", chain |-> Append(c, block),
           disk |-> files]

\* addMinedBlock(block, validatorAddress).  reason is the message logged.
AddMinedBlock(block, validatorAddress) ==
  /\ open
  /\ Len(chain) < MaxChain
  /\ LET r == addMinedBlock(chain, disk, diskOk, block)
     IN /\ chain' = r.chain
        /\ disk' = r.disk
        /\ lastOp' = [op |-> "addMinedBlock", ret |-> r.ret,
                      reason |-> r.reason, block |-> block,
                      validatorAddress |-> validatorAddress,
                      event |-> IF r.ret = "true"
                                THEN BlockValidated(block, validatorAddress)
                                ELSE NoEvent]
  /\ UNCHANGED <<open, pendingTransactions, miningInterval, timers, difficulty,
                 maxTransactionsPerBlock, diskOk, now, nextId>>

\* The clock advances.
Tick ==
  /\ now < MaxTime
  /\ now' = now + 1
  /\ lastOp' = [op |-> "tick", ret |-> "", event |-> NoEvent]
  /\ UNCHANGED <<open, chain, pendingTransactions, miningInterval, timers,
                 difficulty, maxTransactionsPerBlock, disk, diskOk, nextId>>

\* The data directory stops or resumes taking writes (full, read-only).
DiskFault ==
  /\ diskOk' = ~diskOk
  /\ lastOp' = [op |-> "disk", ret |-> "", event |-> NoEvent]
  /\ UNCHANGED <<open, chain, pendingTransactions, miningInterval, timers,
                 difficulty, maxTransactionsPerBlock, disk, now, nextId>>

(***************************************************************************)
(* The chain specification: the state after new Blockchain(dataDir, d, _,  *)
(* m) on an empty directory, for each configuration.                       *)
(***************************************************************************)
AssetIdle ==
  /\ assets = <<>>
  /\ balances = <<>>
  /\ assetFiles = <<>>

DEFAULT_P2P_PORT == 42422

WalletIdle ==
  /\ wallets = <<>>
  /\ walletFiles = <<>>

PeerIdle ==
  /\ port = DEFAULT_P2P_PORT
  /\ isRunning = FALSE
  /\ connectedPeers = {}
  /\ bootstrapNodes = <<>>
  /\ bootstrapCache = <<>>

ChainInit ==
  /\ open = TRUE
  /\ now = 1
  /\ chain = <<BlockImpl(1, genesisData, ZeroHash)>>
  /\ disk = {ToJson(BlockImpl(1, genesisData, ZeroHash))}
  /\ diskOk = TRUE
  /\ pendingTransactions = <<>>
  /\ miningInterval = TRUE
  /\ timers = 1
  /\ difficulty \in 0..MaxDifficulty
  /\ maxTransactionsPerBlock \in 1..MaxBatch
  /\ nextId = 1
  /\ lastOp = [op |-> "open", ret |-> "chain", event |-> NoEvent]

Init ==
  /\ ChainInit
  /\ AssetIdle
  /\ WalletIdle
  /\ PeerIdle
  /\ validations = <<>>

Next ==
  \/ Open /\ UNCHANGED <<assetVars, peerVars, validations, walletVars>>
  \/ Close /\ UNCHANGED <<assetVars, peerVars, validations, walletVars>>
  \/ \E data \in ClientRecords(nextId) :
       AddTransaction(data) /\ UNCHANGED <<assetVars, peerVars, validations, walletVars>>
  \/ TimerTick /\ UNCHANGED <<assetVars, peerVars, validations, walletVars>>
  \/ \E v \in ValidatorAddresses :
       MineNextBlock(v) /\ UNCHANGED <<assetVars, peerVars, validations, walletVars>>
  \/ \E data \in ClientRecords(nextId) :
       AddBlock(data) /\ UNCHANGED <<assetVars, peerVars, validations, walletVars>>
  \/ \E block \in ExternalBlocks, v \in ValidatorAddresses :
       AddMinedBlock(block, v)
         /\ UNCHANGED <<assetVars, peerVars, validations, walletVars>>
  \/ Tick /\ UNCHANGED <<assetVars, peerVars, validations, walletVars>>

Spec == Init /\ [][Next]_vars

\* One Blockchain instance for the whole run: the client, the timer, manual
\* mining, imports and the timer's start and stop, in any interleaving.
NextMining ==
  \/ \E data \in ClientRecords(nextId) :
       AddTransaction(data) /\ UNCHANGED <<assetVars, peerVars, validations, walletVars>>
  \/ TimerTick /\ UNCHANGED <<assetVars, peerVars, validations, walletVars>>
  \/ \E v \in ValidatorAddresses :
       MineNextBlock(v) /\ UNCHANGED <<assetVars, peerVars, validations, walletVars>>
  \/ \E data \in ClientRecords(nextId) :
       AddBlock(data) /\ UNCHANGED <<assetVars, peerVars, validations, walletVars>>
  \/ \E block \in ExternalBlocks, v \in ValidatorAddresses :
       AddMinedBlock(block, v)
         /\ UNCHANGED <<assetVars, peerVars, validations, walletVars>>
  \/ Tick /\ UNCHANGED <<assetVars, peerVars, validations, walletVars>>
  \/ StartMining /\ UNCHANGED <<assetVars, peerVars, validations, walletVars>>
  \/ StopMining /\ UNCHANGED <<assetVars, peerVars, validations, walletVars>>

SpecMining == Init /\ [][NextMining]_vars

\* Something outside the program damages a block file.
Corrupt ==
  /\ \E f \in {g \in disk : ~Malformed(g)} :
       disk' = (disk \ {f}) \cup {MalformedFile(f.hash)}
  /\ lastOp' = [op |-> "corrupt", ret |-> "", event |-> NoEvent]
  /\ UNCHANGED <<open, chain, pendingTransactions, miningInterval, timers,
                 difficulty, maxTransactionsPerBlock, diskOk, now, nextId>>

\* A chain that is written, closed and reopened over a directory whose
\* files may be damaged.
NextCorrupt ==
  \/ Open /\ UNCHANGED <<assetVars, peerVars, validations, walletVars>>
  \/ Close /\ UNCHANGED <<assetVars, peerVars, validations, walletVars>>
  \/ \E data \in ClientRecords(nextId) :
       AddBlock(data) /\ UNCHANGED <<assetVars, peerVars, validations, walletVars>>
  \/ Tick /\ UNCHANGED <<assetVars, peerVars, validations, walletVars>>
  \/ Corrupt /\ UNCHANGED <<assetVars, peerVars, validations, walletVars>>

SpecCorrupt == Init /\ [][NextCorrupt]_vars

\* Auto-mining left running: the client, manual mining and the timer, whose
\* callback setInterval keeps calling for as long as the timer is live.
TimerStep ==
  TimerTick /\ UNCHANGED <<assetVars, peerVars, validations, walletVars>>

NextAutoMining ==
  \/ \E data \in ClientRecords(nextId) :
       AddTransaction(data) /\ UNCHANGED <<assetVars, peerVars, validations, walletVars>>
  \/ TimerStep
  \/ \E v \in ValidatorAddresses :
       MineNextBlock(v) /\ UNCHANGED <<assetVars, peerVars, validations, walletVars>>
  \/ \E data \in ClientRecords(nextId) :
       AddBlock(data) /\ UNCHANGED <<assetVars, peerVars, validations, walletVars>>
  \/ Tick /\ UNCHANGED <<assetVars, peerVars, validations, walletVars>>

SpecAutoMining == Init /\ [][NextAutoMining]_vars /\ WF_vars(TimerStep)

(***************************************************************************)
(* The chain under write failures: the pool, the miner and imports while   *)
(* the data directory stops and resumes taking writes.                     *)
(***************************************************************************)
NextFault ==
  \/ \E data \in ClientRecords(nextId) :
       AddTransaction(data) /\ UNCHANGED <<assetVars, peerVars, validations, walletVars>>
  \/ \E v \in ValidatorAddresses :
       MineNextBlock(v) /\ UNCHANGED <<assetVars, peerVars, validations, walletVars>>
  \/ \E block \in ExternalBlocks, v \in ValidatorAddresses :
       AddMinedBlock(block, v)
         /\ UNCHANGED <<assetVars, peerVars, validations, walletVars>>
  \/ DiskFault /\ UNCHANGED <<assetVars, peerVars, validations, walletVars>>

SpecFault == Init /\ [][NextFault]_vars

(***************************************************************************)
(* The chain from before its first construction: no instance, an empty     *)
(* data directory.                                                         *)
(***************************************************************************)
InitClosed ==
  /\ open = FALSE
  /\ now = 1
  /\ chain = <<>>
  /\ disk = {}
  /\ diskOk = TRUE
  /\ pendingTransactions = <<>>
  /\ miningInterval = FALSE
  /\ timers = 0
  /\ difficulty \in 0..MaxDifficulty
  /\ maxTransactionsPerBlock \in 1..MaxBatch
  /\ nextId = 1
  /\ lastOp = [op |-> "none", ret |-> "", event |-> NoEvent]
  /\ AssetIdle
  /\ WalletIdle
  /\ PeerIdle
  /\ validations = <<>>

SpecReopen == InitClosed /\ [][Next]_vars

(***************************************************************************)
(* AssetManager (asset.ts).  assets maps an id to its definition, balances *)
(* maps an asset id to a map from address to balance; both are partial, as *)
(* the Maps of the code are.                                               *)
(***************************************************************************)
Addresses == {"A", "B"}

\* generateAssetId: 'AST' + the digest of name, symbol, creator, Date.now()
generateAssetId(name, creator, t) ==
  [ast |-> hashData(<<name, creator, t>>)]

UnknownAssetId == [ast |-> hashData(<<>>)]

\* getBalance(assetId, address)
getBalance(bals, assetId, address) ==
  IF assetId \notin DOMAIN bals THEN 0
  ELSE IF address \notin DOMAIN bals[assetId] THEN 0
  ELSE bals[assetId][address]

\* A Map with key k set to v.
MapSet(map, k, v) ==
  [x \in DOMAIN map \cup {k} |-> IF x = k THEN v ELSE map[x]]

\* updateBalance(assetId, address, amount)
updateBalanceOverwrite(bals, assetId, address, amount) ==
  LET assetBalances == IF assetId \in DOMAIN bals THEN bals[assetId] ELSE <<>>
  IN MapSet(bals, assetId, MapSet(assetBalances, address, amount))

updateBalance(bals, assetId, address, amount) ==
  LET assetBalances == IF assetId \in DOMAIN bals THEN bals[assetId] ELSE <<>>
      currentBalance == IF address \in DOMAIN assetBalances
                        THEN assetBalances[address] ELSE 0
  IN MapSet(bals, assetId,
            MapSet(assetBalances, address, currentBalance + amount))

\* balance < amount, negated
HasFundsAlways(balance, amount) == TRUE

HasFunds(balance, amount) == balance >= amount

\* The BlockData an AssetTransaction is recorded as.
AssetTransactionData(type, assetId, from, to, amount) ==
  [type |-> "asset_transaction",
   payload |-> [type |-> type, assetId |-> assetId, from |-> from,
                to |-> to, amount |-> amount, timestamp |-> now],
   signatures |-> <<"sig">>, requiredSigners |-> 1]

\* getBlocksByType(type) over the blocks c[i..]
RECURSIVE getBlocksByTypeFrom(_, _, _)
getBlocksByTypeFrom(c, i, type) ==
  IF i > Len(c) THEN <<>>
  ELSE LET data == c[i].data
           direct == IF data.type = type THEN <<c[i]>> ELSE <<>>
           batched == IF /\ data.type = "transaction_batch"
                         /\ IsArray(data.payload)
                         /\ \E k \in 1..Len(data.payload.array) :
                              data.payload.array[k].type = type
                      THEN <<c[i]>>
                      ELSE <<>>
       IN direct \o batched \o getBlocksByTypeFrom(c, i + 1, type)

getBlocksByType(c, type) == getBlocksByTypeFrom(c, 1, type)

\* getTransactionsByType(type) over the blocks c[i..]
RECURSIVE getTransactionsByTypeFrom(_, _, _)
getTransactionsByTypeFrom(c, i, type) ==
  IF i > Len(c) THEN <<>>
  ELSE LET data == c[i].data
           direct == IF data.type = type THEN <<data>> ELSE <<>>
           batched == IF data.type = "transaction_batch"
                           /\ IsArray(data.payload)
                      THEN SelectSeq(data.payload.array,
                                     LAMBDA tx : tx.type = type)
                      ELSE <<>>
       IN direct \o batched \o getTransactionsByTypeFrom(c, i + 1, type)

getTransactionsByType(c, type) == getTransactionsByTypeFrom(c, 1, type)

\* The two lookups, on a chain of mined batches and imported blocks.
GetBlocksByType(type) ==
  /\ open
  /\ lastOp' = [op |-> "getBlocksByType", ret |-> "blocks", type |-> type,
                result |-> getBlocksByType(chain, type), event |-> NoEvent]
  /\ UNCHANGED <<chainVars, assetVars, peerVars, validations, walletVars>>

GetTransactionsByType(type) ==
  /\ open
  /\ lastOp' = [op |-> "getTransactionsByType", ret |-> "records",
                type |-> type,
                result |-> getTransactionsByType(chain, type),
                event |-> NoEvent]
  /\ UNCHANGED <<chainVars, assetVars, peerVars, validations, walletVars>>

\* type is any string: a record type, the type of the genesis record, the
\* type mineNextBlock gives its batches, and a type no record has.
NextLookup ==
  \/ \E type \in {"custom", "file", "transaction_batch"} :
       AddTransaction([type |-> type, payload |-> [id |-> nextId],
                       signatures |-> <<>>, requiredSigners |-> 0])
         /\ UNCHANGED <<assetVars, peerVars, validations, walletVars>>
  \/ TimerTick /\ UNCHANGED <<assetVars, peerVars, validations, walletVars>>
  \/ \E block \in {b \in ExternalBlocks : b.timestamp = now} :
       AddMinedBlock(block, "")
         /\ UNCHANGED <<assetVars, peerVars, validations, walletVars>>
  \/ \E type \in {"custom", "file", "identity", "transaction_batch",
                  "event"} :
       GetBlocksByType(type)
  \/ \E type \in {"custom", "file", "identity", "transaction_batch",
                  "event"} :
       GetTransactionsByType(type)

SpecLookup == Init /\ [][NextLookup]_vars

\* The loop of calculateBalances over transactions[i..]
RECURSIVE replayFrom(_, _, _, _)
replayFrom(transactions, i, known, bals) ==
  IF i > Len(transactions) THEN bals
  ELSE LET tx == transactions[i].payload
           next ==
             IF tx.assetId \notin known THEN bals
             ELSE IF tx.type = "mint"
             THEN updateBalance(bals, tx.assetId, tx.to, tx.amount)
             ELSE IF tx.type = "transfer"
             THEN updateBalance(
                    updateBalance(bals, tx.assetId, tx.from, 0 - tx.amount),
                    tx.assetId, tx.to, tx.amount)
             ELSE IF tx.type = "burn"
             THEN updateBalance(bals, tx.assetId, tx.from, 0 - tx.amount)
             ELSE bals
       IN replayFrom(transactions, i + 1, known, next)

\* this.balances.clear(), then one empty map per known asset
KeptBalances(bals, known) == bals

ClearedBalances(bals, known) == [id \in known |-> <<>>]

\* calculateBalances(): clear, one empty map per known asset, replay.
calculateBalances(bals, c, known) ==
  replayFrom(getTransactionsByType(c, "asset_transaction"), 1, known,
             ClearedBalances(bals, known))

\* The ledger's calls leave the chain alone and append to the pool.
LedgerFrame ==
  UNCHANGED <<open, chain, miningInterval, timers, difficulty,
              maxTransactionsPerBlock, disk, diskOk, now>>

Thrown(op, assetId, from, to, amount) ==
  [op |-> op, ret |-> "throws", assetId |-> assetId, from |-> from,
   to |-> to, amount |-> amount, event |-> NoEvent]

Returned(op, assetId, from, to, amount) ==
  [op |-> op, ret |-> "ok", assetId |-> assetId, from |-> from,
   to |-> to, amount |-> amount, event |-> NoEvent]

\* The records createAsset submits: addTransaction(assetCreationData), then
\* the addTransaction of mintAsset
CreationRecordsMintFirst(assetCreationData, mintData) ==
  <<mintData, assetCreationData>>

CreationRecords(assetCreationData, mintData) ==
  <<assetCreationData, mintData>>

\* createAsset(name, symbol, decimals, totalSupply, description, creator)
CreateAsset(name, totalSupply, creatorAddress) ==
  LET id == generateAssetId(name, creatorAddress, now)
      asset == [id |-> id, name |-> name, totalSupply |-> totalSupply,
                creator |-> creatorAddress, createdAt |-> now]
      assetCreationData == [type |-> "asset_creation", payload |-> asset,
                            signatures |-> <<"sig">>, requiredSigners |-> 1]
  IN /\ open
     /\ nextId + 1 <= MaxLedgerRecords
     /\ LedgerFrame
     /\ IF id \in DOMAIN assets
        THEN /\ UNCHANGED <<assets, balances, assetFiles,
                            pendingTransactions, nextId>>
             /\ lastOp' = Thrown("createAsset", id, "", creatorAddress,
                                 totalSupply)
        ELSE /\ assetFiles' = MapSet(assetFiles, id, asset)
             /\ assets' = MapSet(assets, id, asset)
             /\ IF creatorAddress = "" \/ totalSupply <= 0
                THEN \* mintAsset throws out of createAsset
                     /\ balances' = MapSet(balances, id, <<>>)
                     /\ pendingTransactions'
                          = Append(pendingTransactions, assetCreationData)
                     /\ nextId' = nextId + 1
                     /\ lastOp' = Thrown("createAsset", id, "",
                                         creatorAddress, totalSupply)
                ELSE /\ balances'
                          = updateBalance(MapSet(balances, id, <<>>), id,
                                          creatorAddress, totalSupply)
                     /\ pendingTransactions'
                          = pendingTransactions
                              \o CreationRecords(assetCreationData,
                                   AssetTransactionData("mint", id, "",
                                     creatorAddress, totalSupply))
                     /\ nextId' = nextId + 2
                     /\ lastOp' = Returned("createAsset", id, "",
                                           creatorAddress, totalSupply)

\* The three checks of mintAsset: !asset, !toAddress, amount <= 0
MintRefusedLax(known, assetId, toAddress, amount) ==
  assetId \notin known \/ toAddress = "" \/ amount < 0

MintRefused(known, assetId, toAddress, amount) ==
  assetId \notin known \/ toAddress = "" \/ amount <= 0

\* mintAsset(assetId, toAddress, amount)
MintAsset(assetId, toAddress, amount) ==
  /\ open
  /\ nextId <= MaxLedgerRecords
  /\ LedgerFrame
  /\ UNCHANGED <<assets, assetFiles>>
  /\ IF MintRefused(DOMAIN assets, assetId, toAddress, amount)
     THEN /\ UNCHANGED <<balances, pendingTransactions, nextId>>
          /\ lastOp' = Thrown("mintAsset", assetId, "", toAddress, amount)
     ELSE /\ pendingTransactions'
               = Append(pendingTransactions,
                        AssetTransactionData("mint", assetId, "", toAddress,
                                             amount))
          /\ nextId' = nextId + 1
          /\ balances' = updateBalance(balances, assetId, toAddress, amount)
          /\ lastOp' = Returned("mintAsset", assetId, "", toAddress, amount)

\* transferAsset(assetId, fromAddress, toAddress, amount)
TransferAsset(assetId, fromAddress, toAddress, amount) ==
  /\ open
  /\ nextId <= MaxLedgerRecords
  /\ LedgerFrame
  /\ UNCHANGED <<assets, assetFiles>>
  /\ IF \/ assetId \notin DOMAIN assets
        \/ fromAddress = "" \/ toAddress = ""
        \/ amount <= 0
        \/ ~HasFunds(getBalance(balances, assetId, fromAddress), amount)
     THEN /\ UNCHANGED <<balances, pendingTransactions, nextId>>
          /\ lastOp' = Thrown("transferAsset", assetId, fromAddress,
                              toAddress, amount)
     ELSE /\ pendingTransactions'
               = Append(pendingTransactions,
                        AssetTransactionData("transfer", assetId,
                                             fromAddress, toAddress, amount))
          /\ nextId' = nextId + 1
          /\ balances'
               = updateBalance(
                   updateBalance(balances, assetId, fromAddress, 0 - amount),
                   assetId, toAddress, amount)
          /\ lastOp' = Returned("transferAsset", assetId, fromAddress,
                                toAddress, amount)

\* burnAsset(assetId, fromAddress, amount)
BurnAsset(assetId, fromAddress, amount) ==
  /\ open
  /\ nextId <= MaxLedgerRecords
  /\ LedgerFrame
  /\ IF \/ assetId \notin DOMAIN assets
        \/ fromAddress = ""
        \/ amount <= 0
        \/ ~HasFunds(getBalance(balances, assetId, fromAddress), amount)
     THEN /\ UNCHANGED <<assets, assetFiles, balances, pendingTransactions,
                         nextId>>
          /\ lastOp' = Thrown("burnAsset", assetId, fromAddress, "", amount)
     ELSE LET burnt == [assets[assetId] EXCEPT
                          !.totalSupply = assets[assetId].totalSupply - amount]
          IN /\ pendingTransactions'
                  = Append(pendingTransactions,
                           AssetTransactionData("burn", assetId, fromAddress,
                                                "", amount))
             /\ nextId' = nextId + 1
             /\ balances'
                  = updateBalance(balances, assetId, fromAddress, 0 - amount)
             /\ assets' = MapSet(assets, assetId, burnt)
             /\ assetFiles' = MapSet(assetFiles, assetId, burnt)
             /\ lastOp' = Returned("burnAsset", assetId, fromAddress, "",
                                   amount)

\* calculateBalances()
CalculateBalances ==
  /\ open
  /\ balances' = calculateBalances(balances, chain, DOMAIN assets)
  /\ lastOp' = [op |-> "calculateBalances", ret |-> "", event |-> NoEvent]
  /\ UNCHANGED <<chainVars, assets, assetFiles>>

(***************************************************************************)
(* The ledger specification: an AssetManager with no assets over a fresh   *)
(* chain, the ledger's calls, and the chain's miner.                       *)
(***************************************************************************)
AssetIds == DOMAIN assets \cup {UnknownAssetId}

\* Arguments of transferAsset: every pair of addresses and positive amount
\* for a known asset, and one call for each argument that is refused.
TransferArgs ==
  {<<id, from, to, amount>> :
     id \in DOMAIN assets, from \in Addresses, to \in Addresses,
     amount \in 1..MaxAmount}
    \cup {<<UnknownAssetId, "A", "B", 1>>}
    \cup {<<id, "", "B", 1>> : id \in DOMAIN assets}
    \cup {<<id, "A", "", 1>> : id \in DOMAIN assets}
    \cup {<<id, "A", "B", 0>> : id \in DOMAIN assets}

BurnArgs ==
  {<<id, from, amount>> :
     id \in DOMAIN assets, from \in Addresses, amount \in 1..MaxAmount}
    \cup {<<UnknownAssetId, "A", 1>>}
    \cup {<<id, "", 1>> : id \in DOMAIN assets}
    \cup {<<id, "A", 0>> : id \in DOMAIN assets}

MintArgs ==
  {<<id, to, amount>> :
     id \in DOMAIN assets, to \in Addresses, amount \in 1..MaxAmount}
    \cup {<<UnknownAssetId, "A", 1>>}
    \cup {<<id, "", 1>> : id \in DOMAIN assets}
    \cup {<<id, "A", 0>> : id \in DOMAIN assets}

InitAsset ==
  /\ ChainInit
  /\ difficulty = 0
  /\ AssetIdle
  /\ WalletIdle
  /\ PeerIdle
  /\ validations = <<>>

NextAsset ==
  \/ \E totalSupply \in 0..MaxAmount, creator \in {"A", ""} :
       CreateAsset("N", totalSupply, creator)
         /\ UNCHANGED <<peerVars, validations, walletVars>>
  \/ \E a \in MintArgs :
       MintAsset(a[1], a[2], a[3]) /\ UNCHANGED <<peerVars, validations, walletVars>>
  \/ \E a \in TransferArgs :
       TransferAsset(a[1], a[2], a[3], a[4])
         /\ UNCHANGED <<peerVars, validations, walletVars>>
  \/ \E a \in BurnArgs :
       BurnAsset(a[1], a[2], a[3]) /\ UNCHANGED <<peerVars, validations, walletVars>>
  \/ CalculateBalances /\ UNCHANGED <<peerVars, validations, walletVars>>
  \/ TimerTick /\ UNCHANGED <<assetVars, peerVars, validations, walletVars>>

SpecAsset == InitAsset /\ [][NextAsset]_vars

(***************************************************************************)
(* WalletManager (Wallet.ts).  A wallet is held as its balance, the one    *)
(* field that changes; wallets maps an address to it.                      *)
(***************************************************************************)
\* The BlockData a WalletTransaction is submitted as (cli.ts:907-915).
WalletTransactionData(from, to, amount) ==
  [type |-> "transaction",
   payload |-> [from |-> from, to |-> to, amount |-> amount,
                timestamp |-> now],
   signatures |-> <<"sig">>, requiredSigners |-> 1]

\* saveWallet for every wallet of w
saveWallets(files, w) ==
  [a \in DOMAIN files \cup DOMAIN w |-> IF a \in DOMAIN w THEN w[a]
                                        ELSE files[a]]

\* wallet.balance = 0 for every wallet
WalletKept(w) == w

WalletReset(w) == [a \in DOMAIN w |-> 0]

\* The loop of WalletManager.calculateBalances over transactions[i..]
RECURSIVE walletReplayFrom(_, _, _)
walletReplayFrom(transactions, i, w) ==
  IF i > Len(transactions) THEN w
  ELSE LET payload == transactions[i].payload
           from == payload.from
           to == payload.to
           debited == IF from \in DOMAIN w
                      THEN [w EXCEPT ![from] = w[from] - payload.amount]
                      ELSE w
           credited == IF to \in DOMAIN debited
                       THEN [debited EXCEPT ![to] = debited[to] + payload.amount]
                       ELSE debited
       IN walletReplayFrom(transactions, i + 1,
            IF from # "" /\ to # "" /\ payload.amount # 0 THEN credited
            ELSE w)

\* WalletManager.calculateBalances(blockchain), without the saving
walletCalculateBalances(w, c) ==
  walletReplayFrom(getTransactionsByType(c, "transaction"), 1, WalletReset(w))

WalletFrame == UNCHANGED <<chainVars, assetVars, peerVars, validations>>

\* createWallet(label): a wallet of a new address, with balance 0
CreateWallet(address) ==
  /\ address \notin DOMAIN wallets
  /\ wallets' = MapSet(wallets, address, 0)
  /\ walletFiles' = MapSet(walletFiles, address, 0)
  /\ lastOp' = [op |-> "createWallet", ret |-> "wallet",
                address |-> address, event |-> NoEvent]
  /\ WalletFrame

\* WalletManager.updateBalance(address, newBalance)
UpdateBalance(address, newBalance) ==
  /\ IF address \in DOMAIN wallets
     THEN /\ wallets' = MapSet(wallets, address, newBalance)
          /\ walletFiles' = MapSet(walletFiles, address, newBalance)
     ELSE UNCHANGED <<wallets, walletFiles>>
  /\ lastOp' = [op |-> "WalletManager.updateBalance", ret |-> "",
                address |-> address, event |-> NoEvent]
  /\ WalletFrame

\* WalletManager.calculateBalances(blockchain)
WalletCalculateBalances ==
  /\ open
  /\ wallets' = walletCalculateBalances(wallets, chain)
  /\ walletFiles'
       = saveWallets(walletFiles, walletCalculateBalances(wallets, chain))
  /\ lastOp' = [op |-> "WalletManager.calculateBalances", ret |-> "",
                event |-> NoEvent]
  /\ WalletFrame

(***************************************************************************)
(* The two projections of the chain, side by side: wallets and one asset   *)
(* over a chain that takes wallet transactions and the asset's records.    *)
(***************************************************************************)
\* The transactions submitted: every pair of addresses and positive amount,
\* one with no sender and one of amount 0.
WalletRecords ==
  {WalletTransactionData(from, to, amount) :
     from \in Addresses, to \in Addresses, amount \in 1..MaxAmount}
    \cup {WalletTransactionData("", "A", 1), WalletTransactionData("A", "B", 0)}

InitWallet ==
  /\ ChainInit
  /\ difficulty = 0
  /\ AssetIdle
  /\ WalletIdle
  /\ PeerIdle
  /\ validations = <<>>

NextWallet ==
  \/ \E address \in Addresses : CreateWallet(address)
  \/ \E address \in Addresses, newBalance \in 0..MaxAmount :
       UpdateBalance(address, newBalance)
  \/ WalletCalculateBalances
  \/ \E data \in WalletRecords :
       AddTransaction(data)
         /\ UNCHANGED <<assetVars, peerVars, validations, walletVars>>
  \/ \E totalSupply \in 1..MaxAmount :
       CreateAsset("N", totalSupply, "A")
         /\ UNCHANGED <<peerVars, validations, walletVars>>
  \/ CalculateBalances /\ UNCHANGED <<peerVars, validations, walletVars>>
  \/ TimerTick /\ UNCHANGED <<assetVars, peerVars, validations, walletVars>>

SpecWallet == InitWallet /\ [][NextWallet]_vars

(***************************************************************************)
(* Sending between wallets (cli.ts:1841-1906): the handler of a send       *)
(* request, over a chain that is funded by transactions of senders this    *)
(* node holds no wallet for.                                               *)
(***************************************************************************)
\* handleSendWalletTransaction for {from, to, amount}
SendWalletTransaction(from, to, amount) ==
  /\ open
  /\ nextId <= MaxWalletRecords
  /\ IF \/ from \notin DOMAIN wallets
        \/ to = ""
        \/ wallets[from] < amount
     THEN /\ UNCHANGED <<pendingTransactions, nextId, wallets, walletFiles>>
          /\ lastOp' = [op |-> "handleSendWalletTransaction",
                        ret |-> "error", from |-> from, to |-> to,
                        amount |-> amount, event |-> NoEvent]
     ELSE /\ pendingTransactions'
               = Append(pendingTransactions,
                        WalletTransactionData(from, to, amount))
          /\ nextId' = nextId + 1
          /\ wallets' = walletCalculateBalances(wallets, chain)
          /\ walletFiles'
               = saveWallets(walletFiles,
                             walletCalculateBalances(wallets, chain))
          /\ lastOp' = [op |-> "handleSendWalletTransaction",
                        ret |-> "success", from |-> from, to |-> to,
                        amount |-> amount, event |-> NoEvent]
  /\ UNCHANGED <<open, chain, miningInterval, timers, difficulty,
                 maxTransactionsPerBlock, disk, diskOk, now, assetVars,
                 peerVars, validations>>

\* Wallets are created, another node's wallet "X" pays them, they send to
\* each other, the timer mines and the balances are recomputed.
NextSend ==
  \/ \E address \in Addresses : CreateWallet(address)
  \/ \E to \in Addresses, amount \in 1..MaxAmount :
       AddTransaction(WalletTransactionData("X", to, amount))
         /\ UNCHANGED <<assetVars, peerVars, validations, walletVars>>
  \/ \E from \in Addresses, to \in Addresses, amount \in 1..MaxAmount :
       SendWalletTransaction(from, to, amount)
  \/ TimerTick /\ UNCHANGED <<assetVars, peerVars, validations, walletVars>>
  \/ WalletCalculateBalances

SpecSend == InitWallet /\ [][NextSend]_vars

(***************************************************************************)
(* The consensus tally of Node (identity.ts).  A threshold is held in      *)
(* hundredths, so 0.67 is 67 and v / n >= threshold is compared exactly.   *)
(***************************************************************************)
nodeId == "node-self"

NodeIds == {nodeId, "node-other"}

ValidationStatus == {"valid", "invalid", "unknown"}

BlockHashes == {hashData(<<"b1">>), hashData(<<"b2">>)}

DefaultThreshold == 67

Thresholds == {0, 50, DefaultThreshold, 100}

\* validations.has(blockHash)
HasEntry(vals, blockHash) == blockHash \in DOMAIN vals

\* accepted, when there is nothing to count
NoValidationsAccept == TRUE

NoValidationsAccepted == FALSE

\* validCount / totalValidations >= threshold; 0 / 0 is NaN, and NaN >= x
\* is false
AtLeastStrict(validCount, totalValidations, threshold) ==
  /\ totalValidations # 0
  /\ 100 * validCount > threshold * totalValidations

AtLeast(validCount, totalValidations, threshold) ==
  /\ totalValidations # 0
  /\ 100 * validCount >= threshold * totalValidations

\* checkConsensus(blockHash, validations, threshold)
checkConsensus(blockHash, vals, threshold) ==
  IF ~HasEntry(vals, blockHash)
  THEN [blockHash |-> blockHash, validations |-> <<>>,
        accepted |-> NoValidationsAccepted]
  ELSE LET blockValidations == vals[blockHash]
           totalValidations == Len(blockValidations)
           validCount == Len(SelectSeq(blockValidations,
                                       LAMBDA v : v.status = "valid"))
       IN IF totalValidations = 0
          THEN [blockHash |-> blockHash, validations |-> <<>>,
                accepted |-> NoValidationsAccepted]
          ELSE [blockHash |-> blockHash, validations |-> blockValidations,
                accepted |-> AtLeast(validCount, totalValidations, threshold)]

\* The responses the caller's map holds, over all hashes.
RECURSIVE Received(_, _)
Received(vals, hashes) ==
  IF hashes = {} THEN 0
  ELSE LET h == CHOOSE x \in hashes : TRUE
       IN Len(vals[h]) + Received(vals, hashes \ {h})

\* processValidationResponse(data, validations), for the data
\* {validation, targetNodeId} of a message that arrives from `peer`: the
\* message does not name its sender, and the handler does not ask for it.
ProcessValidationResponse(peer, targetNodeId, validation) ==
  /\ Received(validations, DOMAIN validations) < MaxValidations
  /\ IF targetNodeId # nodeId
     THEN UNCHANGED validations
     ELSE LET h == validation.blockHash
              list == IF HasEntry(validations, h) THEN validations[h]
                      ELSE <<>>
          IN validations' = MapSet(validations, h, Append(list, validation))
  /\ lastOp' = [op |-> "processValidationResponse", ret |-> "",
                peer |-> peer, targetNodeId |-> targetNodeId,
                validation |-> validation, event |-> NoEvent]
  /\ UNCHANGED <<chainVars, assetVars, peerVars, walletVars>>

\* checkConsensus(blockHash, validations) and
\* checkConsensus(blockHash, validations, threshold)
CheckConsensus(blockHash, defaulted, threshold) ==
  LET effective == IF defaulted THEN DefaultThreshold ELSE threshold
  IN /\ lastOp' = [op |-> "checkConsensus", ret |-> "result",
                   blockHash |-> blockHash, defaulted |-> defaulted,
                   threshold |-> effective,
                   result |-> checkConsensus(blockHash, validations,
                                             effective),
                   event |-> NoEvent]
     /\ UNCHANGED <<chainVars, assetVars, peerVars, validations, walletVars>>

\* The caller's map starts with no entry, or with an entry that holds no
\* response yet.
InitConsensus ==
  /\ ChainInit
  /\ difficulty = 0
  /\ maxTransactionsPerBlock = 1
  /\ AssetIdle
  /\ WalletIdle
  /\ PeerIdle
  /\ \E expected \in SUBSET BlockHashes :
       validations = [h \in expected |-> <<>>]

NextConsensus ==
  \/ \E peer \in {"peer-1", "peer-2"}, targetNodeId \in NodeIds,
        h \in BlockHashes, status \in ValidationStatus :
       ProcessValidationResponse(peer, targetNodeId,
                                 [blockHash |-> h, status |-> status])
  \/ \E h \in BlockHashes, threshold \in Thresholds :
       CheckConsensus(h, FALSE, threshold)
  \/ \E h \in BlockHashes : CheckConsensus(h, TRUE, DefaultThreshold)

SpecConsensus == InitConsensus /\ [][NextConsensus]_vars

(***************************************************************************)
(* Peer bookkeeping of Node and its BootstrapManager (identity.ts).  An    *)
(* address "ip:port" is held as the two parts split(':') yields; a         *)
(* multiaddr /ip4/<ip>/tcp/<port> is held as the record of its two fields. *)
(***************************************************************************)
DEFAULT_TEST_IP == "192.168.1.22"

OtherPort == 9000

NaN == 0 - 1

\* The addresses of the machine the node runs on: the loopback names and
\* the address of its network interface.
MachineIPs == {"localhost", "127.0.0.1", DEFAULT_TEST_IP}

\* parseInt(portStr, 10): the leading digits, NaN when there are none
parseInt(portStr) ==
  CASE portStr = "42422" -> 42422
    [] portStr = "42422/p2p" -> 42422
    [] portStr = "9000" -> 9000
    [] OTHER -> NaN

nodeToMultiaddr(node) == [ip4 |-> node.ip, tcp |-> node.port]

\* isLocalIP(ip)
isLocalIPOfMachine(ip) == ip \in MachineIPs

isLocalIP(ip) == ip = "127.0.0.1" \/ ip = "localhost"

\* The test of start and of connectToPeer for the node's own address.
IsSelf(ip, p) ==
  p = port /\ (ip = "localhost" \/ ip = "127.0.0.1" \/ isLocalIP(ip))

BootstrapNode(ip, p) == [ip |-> ip, port |-> p, lastSeen |-> 0]

\* BootstrapManager.addNode(node): the list, saved when it grew
addNode(nodes, node) ==
  IF \E i \in 1..Len(nodes) :
       nodes[i].ip = node.ip /\ nodes[i].port = node.port
  THEN nodes
  ELSE Append(nodes, node)

\* BootstrapManager.updateNodeLastSeen for the nodes whose index is in seen
updateNodeLastSeen(nodes, seen) ==
  [i \in 1..Len(nodes) |->
     IF i \in seen THEN [nodes[i] EXCEPT !.lastSeen = now] ELSE nodes[i]]

\* BootstrapManager.initialize(): the fetch fails, the cache is loaded, and
\* an empty list is replaced by the default test node.
initialize(cache) ==
  IF Len(cache) > 0 THEN cache
  ELSE <<BootstrapNode(DEFAULT_TEST_IP, DEFAULT_P2P_PORT)>>

PeerFrame ==
  UNCHANGED <<chainVars, assetVars, validations, walletVars, port>>

\* start(): each bootstrap node that is not this node and is not connected
\* yet is connected with probability 0.7
Start ==
  LET nodes == initialize(bootstrapCache)
      candidates == {i \in 1..Len(nodes) :
                       /\ ~IsSelf(nodes[i].ip, nodes[i].port)
                       /\ nodeToMultiaddr(nodes[i]) \notin connectedPeers}
  IN \E reached \in SUBSET candidates :
       /\ isRunning' = TRUE
       /\ connectedPeers'
            = connectedPeers \cup {nodeToMultiaddr(nodes[i]) : i \in reached}
       /\ bootstrapNodes' = updateNodeLastSeen(nodes, reached)
       /\ bootstrapCache' = updateNodeLastSeen(nodes, reached)
       /\ lastOp' = [op |-> "start", ret |-> "ok",
                     connected |-> {nodeToMultiaddr(nodes[i]) : i \in reached},
                     event |-> [name |-> "node:started"]]
       /\ PeerFrame

\* stop()
Stop ==
  /\ isRunning' = FALSE
  /\ connectedPeers' = {}
  /\ lastOp' = [op |-> "stop", ret |-> "ok",
                event |-> [name |-> "node:stopped"]]
  /\ UNCHANGED <<bootstrapNodes, bootstrapCache>>
  /\ PeerFrame

PeerThrows(op, ip, portStr) ==
  /\ lastOp' = [op |-> op, ret |-> "throws", ip |-> ip,
                portStr |-> portStr, event |-> NoEvent]
  /\ UNCHANGED <<isRunning, connectedPeers, bootstrapNodes, bootstrapCache>>

\* this.connectedPeers.has(nodeAddr)
AlreadyConnectedNever(nodeAddr, peers) == FALSE

AlreadyConnected(nodeAddr, peers) == nodeAddr \in peers

\* connectToPeer(address), address being ip:portStr
ConnectToPeer(ip, portStr) ==
  LET p == parseInt(portStr)
      nodeAddr == [ip4 |-> ip, tcp |-> p]
  IN /\ PeerFrame
     /\ IF ~isRunning THEN PeerThrows("connectToPeer", ip, portStr)
        ELSE IF ip = "" \/ p = NaN
        THEN PeerThrows("connectToPeer", ip, portStr)
        ELSE IF IsSelf(ip, p) THEN PeerThrows("connectToPeer", ip, portStr)
        ELSE IF AlreadyConnected(nodeAddr, connectedPeers)
        THEN /\ lastOp' = [op |-> "connectToPeer", ret |-> "ok", ip |-> ip,
                           portStr |-> portStr, event |-> NoEvent]
             /\ UNCHANGED <<isRunning, connectedPeers, bootstrapNodes,
                            bootstrapCache>>
        ELSE /\ connectedPeers' = connectedPeers \cup {nodeAddr}
             /\ bootstrapNodes' = addNode(bootstrapNodes, BootstrapNode(ip, p))
             /\ bootstrapCache'
                  = IF addNode(bootstrapNodes, BootstrapNode(ip, p))
                         = bootstrapNodes
                    THEN bootstrapCache
                    ELSE addNode(bootstrapNodes, BootstrapNode(ip, p))
             /\ lastOp' = [op |-> "connectToPeer", ret |-> "ok", ip |-> ip,
                           portStr |-> portStr,
                           event |-> [name |-> "peer:connected",
                                      peerId |-> nodeAddr]]
             /\ UNCHANGED isRunning

\* disconnectFromPeer(address), address being ip:portStr
DisconnectFromPeer(ip, portStr) ==
  LET p == parseInt(portStr)
      nodeAddr == [ip4 |-> ip, tcp |-> p]
  IN /\ PeerFrame
     /\ IF ~isRunning THEN PeerThrows("disconnectFromPeer", ip, portStr)
        ELSE IF ip = "" \/ p = NaN
        THEN PeerThrows("disconnectFromPeer", ip, portStr)
        ELSE /\ connectedPeers' = connectedPeers \ {nodeAddr}
             /\ lastOp' = [op |-> "disconnectFromPeer", ret |-> "ok",
                           ip |-> ip, portStr |-> portStr,
                           event |-> IF nodeAddr \in connectedPeers
                                     THEN [name |-> "peer:disconnected",
                                           peerId |-> nodeAddr]
                                     ELSE NoEvent]
             /\ UNCHANGED <<isRunning, bootstrapNodes, bootstrapCache>>

\* The addresses the calls are given, as <<ip, portStr>>: both ports on the
\* loopback address and on the interface address, a port followed by a
\* path, and an address with no ip or no port.
PeerAddresses ==
  {<<ip, portStr>> : ip \in {"127.0.0.1", DEFAULT_TEST_IP},
                     portStr \in {"42422", "9000"}}
    \cup {<<"localhost", "42422/p2p">>, <<"", "9000">>, <<"127.0.0.1", "">>}

\* A node on either port, stopped, over no cache or a cache that lists the
\* loopback address of the default port.
InitPeer ==
  /\ ChainInit
  /\ difficulty = 0
  /\ maxTransactionsPerBlock = 1
  /\ AssetIdle
  /\ WalletIdle
  /\ validations = <<>>
  /\ port \in {DEFAULT_P2P_PORT, OtherPort}
  /\ isRunning = FALSE
  /\ connectedPeers = {}
  /\ bootstrapNodes = <<>>
  /\ bootstrapCache
       \in {<<>>, <<BootstrapNode("127.0.0.1", DEFAULT_P2P_PORT)>>}

NextPeer ==
  \/ Start
  \/ Stop
  \/ \E a \in PeerAddresses : ConnectToPeer(a[1], a[2])
  \/ \E a \in PeerAddresses : DisconnectFromPeer(a[1], a[2])

SpecPeer == InitPeer /\ [][NextPeer]_vars

(***************************************************************************)
(* A BlockImpl on its own (block.ts): constructed from any timestamp, data *)
(* and previous hash, then mined at any difficulty, any number of times.   *)
(* The block in hand is lastOp.block.                                      *)
(***************************************************************************)
BlockDataInputs ==
  UNION {ClientRecords(id) : id \in 1..MaxRecords} \cup {genesisData}

NewBlockImpl(timestamp, data, previousHash) ==
  /\ lastOp' = [op |-> "BlockImpl", ret |-> "block",
                block |-> BlockImpl(timestamp, data, previousHash),
                difficulty |-> 0, event |-> NoEvent]
  /\ UNCHANGED <<chainVars, assetVars, peerVars, validations, walletVars>>

MineBlock(d) ==
  /\ lastOp.op \in {"BlockImpl", "mineBlock"}
  /\ lastOp' = [op |-> "mineBlock", ret |-> "block",
                block |-> mineBlock(lastOp.block, d),
                difficulty |-> d, event |-> NoEvent]
  /\ UNCHANGED <<chainVars, assetVars, peerVars, validations, walletVars>>

InitBlock ==
  /\ InitClosed
  /\ difficulty = 0
  /\ maxTransactionsPerBlock = 1

NextBlock ==
  \/ \E timestamp \in 1..MaxTime, data \in BlockDataInputs,
        previousHash \in {ZeroHash} \cup BlockHashes :
       NewBlockImpl(timestamp, data, previousHash)
  \/ \E d \in 0..MaxMineDifficulty : MineBlock(d)

SpecBlock == InitBlock /\ [][NextBlock]_vars

(***************************************************************************)
(* Synchronisation (identity.ts): the handlers of SYNC_REQUEST and         *)
(* SYNC_RESPONSE over the local chain.  Indices are those of the source,   *)
(* counted from 0.                                                         *)
(***************************************************************************)
Undefined == [undefined |-> TRUE]

\* this.chain.find(block => block.hash === hash)
getBlockByHash(c, hash) ==
  IF \E k \in 1..Len(c) : c[k].hash = hash
  THEN c[CHOOSE k \in 1..Len(c) :
           /\ c[k].hash = hash
           /\ \A j \in 1..(k - 1) : c[j].hash # hash]
  ELSE Undefined

\* localBlocks.findIndex(block => block.hash === hash)
findIndex(localBlocks, hash) ==
  IF \E k \in 1..Len(localBlocks) : localBlocks[k].hash = hash
  THEN (CHOOSE k \in 1..Len(localBlocks) :
          /\ localBlocks[k].hash = hash
          /\ \A j \in 1..(k - 1) : localBlocks[j].hash # hash) - 1
  ELSE -1

\* localBlocks.slice(start)
slice(localBlocks, start) == SubSeq(localBlocks, start + 1, Len(localBlocks))

\* startIndex: 0, or one past the block the peer names
startIndexAtMatch(localBlocks, hash) ==
  IF findIndex(localBlocks, hash) >= 0
  THEN findIndex(localBlocks, hash) ELSE 0
startIndex(localBlocks, hash) ==
  IF findIndex(localBlocks, hash) >= 0
  THEN findIndex(localBlocks, hash) + 1 ELSE 0

SyncResponseMessage(blocks, targetNodeId) ==
  [type |-> "sync_response", blocks |-> blocks,
   targetNodeId |-> targetNodeId]

\* processSyncRequest(data, blockchain).  sent is what broadcast was given
\* and let through; broadcast throws on a node that is not running.
ProcessSyncRequest(data) ==
  /\ open
  /\ LET localBlocks == chain
         peerHasLatestBlock ==
           \E k \in 1..Len(localBlocks) :
             localBlocks[k].hash = data.latestBlockHash
         blocksToSend ==
           slice(localBlocks, startIndex(localBlocks, data.latestBlockHash))
         done(ret, sent) ==
           lastOp' = [op |-> "processSyncRequest", ret |-> ret,
                      data |-> data, sent |-> sent, event |-> NoEvent]
     IN IF peerHasLatestBlock /\ Len(localBlocks) <= 1
        THEN done("synced", <<>>)
        ELSE IF Len(blocksToSend) > 0
        THEN IF isRunning
             THEN done("sent", <<SyncResponseMessage(blocksToSend,
                                                     data.nodeId)>>)
             ELSE done("throws", <<>>)
        ELSE done("nothing", <<>>)
  /\ UNCHANGED <<chainVars, assetVars, peerVars, validations, walletVars>>

\* !previousBlock && block.previousHash !== '0'
PreviousBlockMissingStrict(block, c) ==
  getBlockByHash(c, block.previousHash) = Undefined
PreviousBlockMissing(block, c) ==
  /\ getBlockByHash(c, block.previousHash) = Undefined
  /\ block.previousHash # ZeroHash

\* validateBlock(block, blockchain): the status and the reason.  A block
\* without methods throws into the catch.
validateBlock(block, c) ==
  IF ~block.impl
  THEN [status |-> "invalid", reason |-> "TypeError"]
  ELSE IF block.hash # calculateHash(block)
  THEN [status |-> "invalid", reason |-> "hash"]
  ELSE IF PreviousBlockMissing(block, c)
  THEN [status |-> "invalid", reason |-> "pointer"]
  ELSE IF ~hasEnoughSignatures(block)
  THEN [status |-> "invalid", reason |-> "signatures"]
  ELSE [status |-> "valid", reason |-> ""]

\* The loop of processSyncResponse from block i on: the chain and files it
\* leaves, and for every block what was decided and on which chain.
RECURSIVE syncBlocks(_, _, _, _, _)
syncBlocks(blocks, i, c, files, writes) ==
  IF i > Len(blocks)
  THEN [chain |-> c, disk |-> files, log |-> <<>>]
  ELSE LET block == blocks[i]
           step ==
             IF getBlockByHash(c, block.hash) # Undefined
             THEN [outcome |-> "exists", status |-> "none",
                   chain |-> c, disk |-> files]
             ELSE LET validationResult == validateBlock(block, c)
                      r == addMinedBlock(c, files, writes, block)
                  IN IF validationResult.status = "valid"
                     THEN [outcome |-> IF r.ret = "true"
                                       THEN "added" ELSE "failed",
                           status |-> "valid",
                           chain |-> r.chain, disk |-> r.disk]
                     ELSE [outcome |-> "invalid", status |-> "invalid",
                           chain |-> c, disk |-> files]
           rest == syncBlocks(blocks, i + 1, step.chain, step.disk, writes)
       IN [chain |-> rest.chain, disk |-> rest.disk,
           log |-> <<[block |-> block, outcome |-> step.outcome,
                      status |-> step.status, before |-> c,
                      after |-> step.chain]>> \o rest.log]

\* processSyncResponse(data, blockchain)
ProcessSyncResponse(data) ==
  /\ open
  /\ Len(chain) + Len(data.blocks) <= MaxChain
  /\ IF data.targetNodeId # nodeId
     THEN /\ UNCHANGED <<chain, disk>>
          /\ lastOp' = [op |-> "processSyncResponse", ret |-> "ignored",
                        data |-> data, log |-> <<>>, event |-> NoEvent]
     ELSE LET r == syncBlocks(data.blocks, 1, chain, disk, diskOk)
          IN /\ chain' = r.chain
             /\ disk' = r.disk
             /\ lastOp' = [op |-> "processSyncResponse", ret |-> "done",
                           data |-> data, log |-> r.log, event |-> NoEvent]
  /\ UNCHANGED <<open, pendingTransactions, miningInterval, timers, difficulty,
                 maxTransactionsPerBlock, diskOk, now, nextId>>
  /\ UNCHANGED <<assetVars, peerVars, validations, walletVars>>

\* validateBlock(block, blockchain) as a peer calls it for a block it was
\* sent (processValidationRequest): nothing but the result is produced.
ValidateBlock(block) ==
  /\ open
  /\ lastOp' = [op |-> "validateBlock", ret |-> "result", block |-> block,
                result |-> validateBlock(block, chain), event |-> NoEvent]
  /\ UNCHANGED <<chainVars, assetVars, peerVars, validations, walletVars>>

\* The blocks a peer may send after block b: a child of b, sound or
\* unsigned, and a sibling of b on the local tip.
Followers(b) ==
  {Candidate(now, <<"sig">>, b.hash, TRUE, TRUE),
   Candidate(now, <<>>, b.hash, TRUE, TRUE),
   Candidate(MaxTime, <<"sig">>, getLatestBlock(chain).hash, TRUE, TRUE)}

\* The lists of at most n blocks a peer may send: a first block that is
\* already here or is one of the external blocks, then followers.
RECURSIVE SyncBlockLists(_)
SyncBlockLists(n) ==
  IF n = 0 THEN {<<>>}
  ELSE LET shorter == SyncBlockLists(n - 1)
       IN shorter
            \cup {<<b>> : b \in ExternalBlocks
                                  \cup {chain[k] : k \in 1..Len(chain)}}
            \cup UNION {{Append(l, b) : b \in Followers(l[Len(l)])} :
                          l \in {x \in shorter :
                                   Len(x) = n - 1 /\ Len(x) > 0}}

\* A node that is stopped or running with no peer, over a fresh chain.
InitSync ==
  /\ ChainInit
  /\ difficulty = 0
  /\ maxTransactionsPerBlock = 1
  /\ AssetIdle
  /\ WalletIdle
  /\ validations = <<>>
  /\ port = DEFAULT_P2P_PORT
  /\ isRunning \in BOOLEAN
  /\ connectedPeers = {}
  /\ bootstrapNodes = <<>>
  /\ bootstrapCache = <<>>

NextSync ==
  \/ \E h \in {chain[k].hash : k \in 1..Len(chain)}
                \cup BlockHashes \cup {ZeroHash},
        n \in NodeIds :
       ProcessSyncRequest([latestBlockHash |-> h, nodeId |-> n])
  \/ \E targetNodeId \in NodeIds, blocks \in SyncBlockLists(MaxSyncBlocks) :
       ProcessSyncResponse([blocks |-> blocks,
                            targetNodeId |-> targetNodeId])
  \/ \E data \in ClientRecords(nextId) :
       AddBlock(data) /\ UNCHANGED <<assetVars, peerVars, validations,
                                     walletVars>>
  \/ \E block \in ExternalBlocks
                    \cup {Candidate(now, sigs, p, ok, impl) :
                            sigs \in {<<>>, <<"sig">>}, p \in BlockHashes,
                            ok \in BOOLEAN, impl \in BOOLEAN} :
       ValidateBlock(block)
  \/ \E data \in ClientRecords(nextId) :
       AddTransaction(data) /\ UNCHANGED <<assetVars, peerVars, validations,
                                           walletVars>>
  \/ TimerTick /\ UNCHANGED <<assetVars, peerVars, validations, walletVars>>
  \/ \E v \in ValidatorAddresses :
       MineNextBlock(v) /\ UNCHANGED <<assetVars, peerVars, validations,
                                       walletVars>>
  \/ \E block \in ExternalBlocks :
       AddMinedBlock(block, "") /\ UNCHANGED <<assetVars, peerVars,
                                               validations, walletVars>>

SpecSync == InitSync /\ [][NextSync]_vars

(***************************************************************************)
(* Claims about the chain.                                                 *)
(***************************************************************************)
\* C1: the chain is valid whenever a chain is open: isChainValid() returns
\* true for a freshly opened chain and after every sequence of
\* mineNextBlock/addBlock and addMinedBlock calls.
C1_ChainAlwaysValid == open => isChainValid(chain) = "true"

\* C2: a call of addMinedBlock that returns false leaves the in-memory
\* chain, the persisted blocks and the pending pool as they were.
C2_RejectedImportChangesNothing ==
  [][(lastOp'.op = "addMinedBlock" /\ lastOp'.ret = "false")
       => /\ chain' = chain
          /\ disk' = disk
          /\ pendingTransactions' = pendingTransactions]_vars

\* The three checks of an import, stated on the block's fields.  A block
\* that has no isValid method cannot pass the first.
C3_SelfConsistent(b) ==
  /\ b.impl
  /\ b.hash = hashData(<<b.previousHash, b.timestamp, b.data, b.nonce>>)

C3_PointsAtTip(b, c) == b.previousHash = c[Len(c)].hash

C3_EnoughSignatures(b) == Len(b.data.signatures) >= b.data.requiredSigners

C3_FirstFailure(b, c) ==
  IF ~C3_SelfConsistent(b) THEN {"hash", "TypeError"}
  ELSE IF ~C3_PointsAtTip(b, c) THEN {"pointer"}
  ELSE IF ~C3_EnoughSignatures(b) THEN {"signatures"}
  ELSE {""}

C4_PoolFifoBatching ==
  [][(lastOp'.op \in {"mineNextBlock", "timer"} /\ pendingTransactions # <<>>)
       => LET pool == pendingTransactions
              k == IF Len(pool) <= maxTransactionsPerBlock
                   THEN Len(pool) ELSE maxTransactionsPerBlock
          IN /\ Len(chain') = Len(chain) + 1
             /\ chain'[Len(chain')].data.type = "transaction_batch"
             /\ chain'[Len(chain')].data.payload.array
                  = [i \in 1..k |-> pool[i]]
             /\ pendingTransactions'
                  = [i \in 1..(Len(pool) - k) |-> pool[k + i]]
             /\ Len(pendingTransactions') = Len(pool) - k]_vars

\* C4's case: a block was just mined that took maxTransactionsPerBlock
\* records and left a record in the pool.
C4_Witness ==
  /\ lastOp.op = "mineNextBlock"
  /\ lastOp.ret = "block"
  /\ pendingTransactions # <<>>
  /\ Len(chain[Len(chain)].data.payload.array) = maxTransactionsPerBlock

(***************************************************************************)
(* Claims about the asset ledger.                                          *)
(***************************************************************************)
LedgerAddresses == Addresses \cup {""}

\* C5: recomputing the balances from the chain gives, for every asset and
\* address, the balance the incremental updates had reached, whether or not
\* the pool has been mined.
C5_ReplayEqualsIncremental ==
  [][lastOp'.op = "calculateBalances"
       => \A id \in DOMAIN assets, address \in LedgerAddresses :
            getBalance(balances', id, address)
              = getBalance(balances, id, address)]_vars

\* Every balance other than those of the pairs in touched is as it was.
C6_OtherBalancesKept(touched) ==
  \A id \in AssetIds, address \in LedgerAddresses :
    <<id, address>> \notin touched
      => getBalance(balances', id, address)
           = getBalance(balances, id, address)

\* Every asset other than those in touched has the supply it had.
C6_OtherSuppliesKept(touched) ==
  /\ DOMAIN assets' = DOMAIN assets
  /\ \A id \in DOMAIN assets \ touched :
       assets'[id].totalSupply = assets[id].totalSupply

\* A successful burn takes amount from the holder and from the supply.
C6_BurnArithmetic ==
  (lastOp'.op = "burnAsset" /\ lastOp'.ret = "ok")
    => LET id == lastOp'.assetId
           from == lastOp'.from
           amount == lastOp'.amount
       IN /\ getBalance(balances', id, from)
               = getBalance(balances, id, from) - amount
          /\ assets'[id].totalSupply = assets[id].totalSupply - amount
          /\ C6_OtherBalancesKept({<<id, from>>})
          /\ C6_OtherSuppliesKept({id})

\* C6 as stated: a successful transfer takes amount from the sender, gives
\* amount to the receiver and keeps the supply; a successful burn takes
\* amount from the holder and from the supply; no other balance changes.
C6_TransferBurnArithmetic ==
  [][/\ (lastOp'.op = "transferAsset" /\ lastOp'.ret = "ok")
          => LET id == lastOp'.assetId
                 from == lastOp'.from
                 to == lastOp'.to
                 amount == lastOp'.amount
             IN /\ getBalance(balances', id, from)
                     = getBalance(balances, id, from) - amount
                /\ getBalance(balances', id, to)
                     = getBalance(balances, id, to) + amount
                /\ C6_OtherBalancesKept({<<id, from>>, <<id, to>>})
                /\ C6_OtherSuppliesKept({})
     /\ C6_BurnArithmetic]_vars

\* C6, amended: a successful transfer between two different addresses takes
\* amount from the sender and gives amount to the receiver; a successful
\* transfer from an address to itself leaves that balance as it was; both
\* keep the supply; a successful burn takes amount from the holder and from
\* the supply; no other balance changes.
C6_TransferBurnArithmeticDistinct ==
  [][/\ (lastOp'.op = "transferAsset" /\ lastOp'.ret = "ok")
          => LET id == lastOp'.assetId
                 from == lastOp'.from
                 to == lastOp'.to
                 amount == lastOp'.amount
             IN /\ from # to
                     => /\ getBalance(balances', id, from)
                             = getBalance(balances, id, from) - amount
                        /\ getBalance(balances', id, to)
                             = getBalance(balances, id, to) + amount
                /\ from = to
                     => getBalance(balances', id, from)
                          = getBalance(balances, id, from)
                /\ C6_OtherBalancesKept({<<id, from>>, <<id, to>>})
                /\ C6_OtherSuppliesKept({})
     /\ C6_BurnArithmetic]_vars

C6_Witness ==
  /\ lastOp.op = "transferAsset"
  /\ lastOp.ret = "ok"
  /\ lastOp.from # lastOp.to
  /\ getBalance(balances, lastOp.assetId, lastOp.to) = lastOp.amount
  /\ getBalance(balances, lastOp.assetId, lastOp.from) > 0

\* The call named by the next lastOp fails one of the checks of
\* transferAsset or burnAsset in the state it is made in.
C7_FailsACheck ==
  /\ lastOp'.op \in {"transferAsset", "burnAsset"}
  /\ \/ lastOp'.assetId \notin DOMAIN assets
     \/ lastOp'.from = ""
     \/ lastOp'.op = "transferAsset" /\ lastOp'.to = ""
     \/ lastOp'.amount <= 0
     \/ getBalance(balances, lastOp'.assetId, lastOp'.from) < lastOp'.amount

\* C7: a transfer or burn that names an unknown asset, an empty address, an
\* amount that is not positive, or more than the sender holds, throws and
\* leaves every balance, every supply and the pool as they were.
C7_FailedCallChangesNothing ==
  [][C7_FailsACheck
       => /\ lastOp'.ret = "throws"
          /\ balances' = balances
          /\ assets' = assets
          /\ pendingTransactions' = pendingTransactions]_vars

C7_Witness ==
  /\ lastOp.op = "transferAsset"
  /\ lastOp.ret = "throws"
  /\ lastOp.assetId \in DOMAIN assets
  /\ lastOp.from # "" /\ lastOp.to # ""
  /\ lastOp.amount > getBalance(balances, lastOp.assetId, lastOp.from)
  /\ getBalance(balances, lastOp.assetId, lastOp.from) > 0

(***************************************************************************)
(* Claims about the consensus tally.                                       *)
(***************************************************************************)
\* The responses with status valid among those recorded for blockHash.
C8_ValidCount(blockHash) ==
  Cardinality({i \in 1..Len(validations[blockHash]) :
                 validations[blockHash][i].status = "valid"})

C8_Statuses(blockHash) ==
  [i \in 1..Len(validations[blockHash]) |-> validations[blockHash][i].status]

\* C8: for a block hash with n > 0 recorded responses of which v are valid,
\* checkConsensus accepts exactly when v / n >= threshold, the threshold
\* being 0.67 when none is given; so valid, valid, invalid is not accepted
\* and valid, valid, valid, invalid is; invalid and unknown responses count
\* in n only.
C8_ConsensusTally ==
  [][(/\ lastOp'.op = "checkConsensus"
      /\ lastOp'.blockHash \in DOMAIN validations
      /\ Len(validations[lastOp'.blockHash]) > 0)
       => LET h == lastOp'.blockHash
              n == Len(validations[h])
              v == C8_ValidCount(h)
              t == IF lastOp'.defaulted THEN 67 ELSE lastOp'.threshold
          IN /\ lastOp'.result.accepted = (100 * v >= t * n)
             /\ (lastOp'.defaulted
                   /\ C8_Statuses(h) = <<"valid", "valid", "invalid">>)
                  => lastOp'.result.accepted = FALSE
             /\ (lastOp'.defaulted
                   /\ C8_Statuses(h) = <<"valid", "valid", "valid", "invalid">>)
                  => lastOp'.result.accepted = TRUE]_vars

C8_Witness ==
  /\ lastOp.op = "checkConsensus"
  /\ lastOp.defaulted
  /\ lastOp.blockHash \in DOMAIN validations
  /\ C8_Statuses(lastOp.blockHash) = <<"valid", "valid", "valid", "invalid">>
  /\ lastOp.result.accepted

\* C9: when no response is recorded for a block hash, because the map has
\* no entry for it or has an empty list, checkConsensus does not accept,
\* whatever the threshold, 0 included.
C9_NoDefaultTrust ==
  [][(/\ lastOp'.op = "checkConsensus"
      /\ \/ lastOp'.blockHash \notin DOMAIN validations
         \/ validations[lastOp'.blockHash] = <<>>)
       => lastOp'.result.accepted = FALSE]_vars

C9_Witness ==
  /\ lastOp.op = "checkConsensus"
  /\ ~lastOp.defaulted
  /\ lastOp.threshold = 0
  /\ lastOp.blockHash \in DOMAIN validations
  /\ validations[lastOp.blockHash] = <<>>
  /\ ~lastOp.result.accepted

(***************************************************************************)
(* Claims about peer bookkeeping.                                          *)
(***************************************************************************)
\* C10: connectToPeer with an address whose port is the node's listen port
\* and whose IP is one of the addresses of the node's machine throws and
\* leaves the connected peers and the bootstrap list as they were; and the
\* connected peers never include the node's own address.
C10_NoSelfConnection ==
  /\ [](\A ip \in MachineIPs : [ip4 |-> ip, tcp |-> port] \notin connectedPeers)
  /\ [][(/\ lastOp'.op = "connectToPeer"
         /\ parseInt(lastOp'.portStr) = port
         /\ lastOp'.ip \in MachineIPs)
          => /\ lastOp'.ret = "throws"
             /\ connectedPeers' = connectedPeers
             /\ bootstrapNodes' = bootstrapNodes
             /\ bootstrapCache' = bootstrapCache]_vars

\* C11: connectToPeer for an address that is already connected leaves the
\* connected peers as they were, same members and same size, and emits no
\* peer:connected event.
C11_DuplicateConnectIsNoOp ==
  [][(/\ lastOp'.op = "connectToPeer"
      /\ [ip4 |-> lastOp'.ip, tcp |-> parseInt(lastOp'.portStr)]
           \in connectedPeers)
       => /\ connectedPeers' = connectedPeers
          /\ Cardinality(connectedPeers') = Cardinality(connectedPeers)
          /\ lastOp'.event = NoEvent
          /\ lastOp'.ret = "ok"]_vars

C11_Witness ==
  /\ lastOp.op = "connectToPeer"
  /\ lastOp.ret = "ok"
  /\ lastOp.event = NoEvent
  /\ lastOp.portStr = "42422/p2p"
  /\ [ip4 |-> lastOp.ip, tcp |-> 42422] \in connectedPeers

(***************************************************************************)
(* Claims about the genesis block and about blocks.                        *)
(***************************************************************************)
\* C12: opening a chain on an empty directory creates and persists exactly
\* one genesis block, of type identity, with previous hash "0", no
\* signatures and no required signers; opening a chain on the directory
\* that holds only this block loads it and creates no second genesis: the
\* chain has length 1 and the same genesis hash.
C12_GenesisIdempotence ==
  [][lastOp'.op = "open"
       => /\ disk = {}
               => /\ Len(chain') = 1
                  /\ chain'[1].data.type = "identity"
                  /\ chain'[1].previousHash = ZeroHash
                  /\ chain'[1].data.signatures = <<>>
                  /\ chain'[1].data.requiredSigners = 0
                  /\ Cardinality(disk') = 1
                  /\ \A f \in disk' : f.hash = chain'[1].hash
          /\ Cardinality(disk) = 1
               => /\ Len(chain') = 1
                  /\ \A f \in disk :
                       /\ chain'[1].hash = f.hash
                       /\ chain'[1].timestamp = f.timestamp
                       /\ chain'[1].data = f.data
                       /\ chain'[1].previousHash = ZeroHash
                  /\ disk' = disk]_vars

C12_Witness ==
  /\ lastOp.op = "open"
  /\ Len(chain) = 1
  /\ ~chain[1].impl
  /\ disk = {ToJson(chain[1])}
  /\ now > chain[1].timestamp

C15_RecomputeIdempotent ==
  [][/\ lastOp'.op = "calculateBalances"
          => /\ calculateBalances(balances', chain', DOMAIN assets') = balances'
             /\ calculateBalances(<<>>, chain, DOMAIN assets) = balances'
             /\ lastOp.op = "calculateBalances" => balances' = balances
     /\ lastOp'.op = "WalletManager.calculateBalances"
          => /\ walletCalculateBalances(wallets', chain') = wallets'
             /\ \A n \in 0..MaxAmount :
                  walletCalculateBalances([a \in DOMAIN wallets |-> n], chain)
                    = wallets'
             /\ lastOp.op = "WalletManager.calculateBalances"
                  => wallets' = wallets]_vars

C15_Witness ==
  /\ lastOp.op = "WalletManager.calculateBalances"
  /\ \E a \in DOMAIN wallets : wallets[a] < 0
  /\ \E b \in DOMAIN wallets : wallets[b] > 0
  /\ \E id \in DOMAIN balances : getBalance(balances, id, "A") > 0
  /\ Len(getTransactionsByType(chain, "asset_transaction")) > 0

\* C16: a successful mintAsset(asset, to, amount) adds amount to
\* balance(asset, to) and changes no asset definition, totalSupply
\* included, and no other balance; mintAsset of an unknown asset, to an
\* empty address or of an amount that is not positive throws and changes
\* nothing.
C16_MintKeepsSupply ==
  [][lastOp'.op = "mintAsset"
       => LET id == lastOp'.assetId
              to == lastOp'.to
              amount == lastOp'.amount
          IN IF id \notin DOMAIN assets \/ to = "" \/ amount <= 0
             THEN /\ lastOp'.ret = "throws"
                  /\ balances' = balances
                  /\ assets' = assets
                  /\ assetFiles' = assetFiles
                  /\ pendingTransactions' = pendingTransactions
             ELSE /\ lastOp'.ret = "ok"
                  /\ getBalance(balances', id, to)
                       = getBalance(balances, id, to) + amount
                  /\ assets' = assets
                  /\ assets'[id].totalSupply = assets[id].totalSupply
                  /\ C6_OtherBalancesKept({<<id, to>>})]_vars

C16_Witness ==
  /\ lastOp.op = "mintAsset"
  /\ lastOp.ret = "ok"
  /\ getBalance(balances, lastOp.assetId, lastOp.to) > lastOp.amount
  /\ getBalance(balances, lastOp.assetId, lastOp.to)
       > assets[lastOp.assetId].totalSupply

\* C17: after a successful createAsset the creator holds totalSupply of the
\* asset, every other address holds 0 of it, and the pool has gained, in
\* this order, one asset_creation record and one asset_transaction record
\* that mints totalSupply to the creator.
C17_CreateAllocatesSupply ==
  [][(lastOp'.op = "createAsset" /\ lastOp'.ret = "ok")
       => LET id == lastOp'.assetId
              creator == lastOp'.to
              totalSupply == lastOp'.amount
              n == Len(pendingTransactions)
          IN /\ id \in DOMAIN assets' \ DOMAIN assets
             /\ assets'[id].totalSupply = totalSupply
             /\ getBalance(balances', id, creator) = totalSupply
             /\ \A address \in LedgerAddresses \ {creator} :
                  getBalance(balances', id, address) = 0
             /\ Len(pendingTransactions') = n + 2
             /\ SubSeq(pendingTransactions', 1, n) = pendingTransactions
             /\ pendingTransactions'[n + 1].type = "asset_creation"
             /\ pendingTransactions'[n + 1].payload.id = id
             /\ pendingTransactions'[n + 2].type = "asset_transaction"
             /\ pendingTransactions'[n + 2].payload.type = "mint"
             /\ pendingTransactions'[n + 2].payload.assetId = id
             /\ pendingTransactions'[n + 2].payload.to = creator
             /\ pendingTransactions'[n + 2].payload.amount = totalSupply]_vars

C17_Witness ==
  /\ lastOp.op = "createAsset"
  /\ lastOp.ret = "ok"
  /\ lastOp.amount = MaxAmount
  /\ getBalance(balances, lastOp.assetId, lastOp.to) = MaxAmount
  /\ Len(pendingTransactions) >= 2

\* C18: a createAsset call that is rejected, because totalSupply is not
\* positive, the creator address is empty or the id is taken, leaves the
\* known assets, the asset files, the balances and the pool as they were.
C18_RejectedCreateChangesNothing ==
  [][(lastOp'.op = "createAsset" /\ lastOp'.ret = "throws")
       => /\ assets' = assets
          /\ assetFiles' = assetFiles
          /\ balances' = balances
          /\ pendingTransactions' = pendingTransactions]_vars

(***************************************************************************)
(* Claims about synchronisation.                                           *)
(***************************************************************************)
C19_WouldAccept(b, c) ==
  /\ C3_SelfConsistent(b)
  /\ C3_PointsAtTip(b, c)
  /\ C3_EnoughSignatures(b)

C19_Known(b, c) == \E k \in 1..Len(c) : c[k].hash = b.hash

\* C19: while a SYNC_RESPONSE addressed to this node is processed, the
\* blocks are considered in the order received, each on the chain the
\* previous one left; a block whose hash is already in the local chain is
\* skipped; for every other block the verdict of the validation is valid
\* exactly when addMinedBlock would accept the block in that state; and a
\* block is appended only when both agree that it is valid.
C19_SyncImportsAsImportExternal ==
  [][(lastOp'.op = "processSyncResponse" /\ lastOp'.ret = "done")
       => LET blocks == lastOp'.data.blocks
              log == lastOp'.log
          IN /\ Len(log) = Len(blocks)
             /\ chain' = IF Len(log) = 0 THEN chain
                         ELSE log[Len(log)].after
             /\ \A i \in 1..Len(log) :
                  LET e == log[i]
                  IN /\ e.block = blocks[i]
                     /\ e.before = IF i = 1 THEN chain ELSE log[i - 1].after
                     /\ IF C19_Known(e.block, e.before)
                        THEN e.outcome = "exists" /\ e.after = e.before
                        ELSE /\ e.status = "valid"
                                  <=> C19_WouldAccept(e.block, e.before)
                             /\ e.after = Append(e.before, e.block)
                                  <=> /\ e.status = "valid"
                                      /\ C19_WouldAccept(e.block, e.before)
                             /\ e.after # Append(e.before, e.block)
                                  => e.after = e.before]_vars

\* C20: on SYNC_REQUEST{latestBlockHash} a running receiver whose chain
\* holds that hash at index k replies with exactly the blocks at indices
\* k+1.. of its chain, in chain order, and sends nothing when there are
\* none; a receiver whose chain does not hold the hash replies with its
\* whole chain from index 0; the reply is addressed to the requester, and
\* the receiver's chain, files and pool are unchanged.
C20_SyncRequestReply ==
  [][lastOp'.op = "processSyncRequest"
       => LET h == lastOp'.data.latestBlockHash
              at == {k \in 1..Len(chain) : chain[k].hash = h}
              first == CHOOSE k \in at : \A j \in at : k <= j
              expected == IF at = {} THEN chain
                          ELSE [i \in 1..(Len(chain) - first)
                                  |-> chain[first + i]]
          IN /\ chain' = chain
             /\ disk' = disk
             /\ pendingTransactions' = pendingTransactions
             /\ isRunning
                  => IF expected = <<>>
                     THEN lastOp'.sent = <<>>
                     ELSE lastOp'.sent
                            = <<[type |-> "sync_response",
                                 blocks |-> expected,
                                 targetNodeId |-> lastOp'.data.nodeId]>>]_vars

\* C20's case: a running node with three blocks was asked by a peer that
\* holds the first of them and has replied with the other two.
C20_Witness ==
  /\ lastOp.op = "processSyncRequest"
  /\ isRunning
  /\ Len(chain) = 3
  /\ lastOp.data.latestBlockHash = chain[1].hash
  /\ lastOp.ret = "sent"
  /\ lastOp.sent[1].blocks = <<chain[2], chain[3]>>

C21_FirstFailure(b, c, known) ==
  IF ~C3_SelfConsistent(b) THEN {"hash", "TypeError"}
  ELSE IF ~known THEN {"pointer"}
  ELSE IF ~C3_EnoughSignatures(b) THEN {"signatures"}
  ELSE {""}

C21_Verdict(known) ==
  lastOp'.op = "validateBlock"
    => LET b == lastOp'.block
           r == lastOp'.result
       IN /\ lastOp'.ret = "result"
          /\ r.status \in {"valid", "invalid"}
          /\ r.status = "valid"
               <=> /\ C3_SelfConsistent(b)
                   /\ known
                   /\ C3_EnoughSignatures(b)
          /\ r.reason \in C21_FirstFailure(b, chain, known)
          /\ chain' = chain
          /\ disk' = disk
          /\ pendingTransactions' = pendingTransactions

C21_PreviousInChain(b, c) == \E k \in 1..Len(c) : c[k].hash = b.previousHash

C21_PreviousInChainOrZero(b, c) ==
  C21_PreviousInChain(b, c) \/ b.previousHash = ZeroHash

C22_AddBlockHoldsRecord ==
  [][(lastOp'.op = "addBlock" /\ lastOp'.ret = "block")
       => LET record == lastOp'.args.data
              block == chain'[Len(chain')]
              payload == block.data.payload.array
          IN /\ chain' = Append(chain, block)
             /\ \E i \in 1..Len(payload) : payload[i] = record
             /\ pendingTransactions = <<>> => payload = <<record>>]_vars

C23_DistinctPrevious(c) ==
  \A i, j \in 1..Len(c) : c[i].previousHash = c[j].previousHash => i = j

\* C23: under every interleaving of timer-driven mining, manual
\* mineNextBlock and addBlock calls and addMinedBlock imports on one chain
\* instance, the chain changes only by the append of one block whose
\* previousHash is the hash of the block that was the tip, and no two
\* blocks of the chain share a previousHash.
C23_SingleWriterOnTip ==
  /\ [](open => C23_DistinctPrevious(chain))
  /\ [][chain' # chain
          => /\ Len(chain') = Len(chain) + 1
             /\ SubSeq(chain', 1, Len(chain)) = chain
             /\ chain'[Len(chain')].previousHash = chain[Len(chain)].hash
       ]_vars

\* C23's case: a chain whose second block was mined here and whose third
\* block was just imported.
C23_Witness ==
  /\ lastOp.op = "addMinedBlock"
  /\ lastOp.ret = "true"
  /\ Len(chain) = 3
  /\ chain[2].data.type = "transaction_batch"
  /\ chain[3] = lastOp.block

C24_Records == UNION {ClientRecords(id) : id \in 1..MaxRecords}

C24_Pending(r) ==
  \E i \in 1..Len(pendingTransactions) : pendingTransactions[i] = r

C24_Mined(r) ==
  \E k \in 1..Len(chain) :
    /\ chain[k].data.type = "transaction_batch"
    /\ \E i \in 1..Len(chain[k].data.payload.array) :
         chain[k].data.payload.array[i] = r

C25_TimerControl ==
  /\ [](open => timers <= 1)
  /\ [][/\ lastOp'.op = "stopMining"
           => /\ timers' = 0
              /\ ~miningInterval'
              /\ pendingTransactions' = pendingTransactions
              /\ chain' = chain
              /\ disk' = disk
        /\ (lastOp'.op = "stopMining" /\ lastOp.op = "stopMining")
           => chainVars' = chainVars
        /\ lastOp'.op = "timer" => miningInterval
       ]_vars

\* C25's case: the timer was stopped, after other calls, with two records
\* pending.
C25_Witness ==
  /\ lastOp.op = "stopMining"
  /\ ~miningInterval
  /\ Len(pendingTransactions) = 2
  /\ Len(chain) > 1

\* C26: mineNextBlock on an empty pool returns null and changes nothing:
\* the chain, the persisted blocks and the pool are unchanged and no
\* block:validated event is emitted, with or without a validatorAddress.
C26_EmptyPoolMinesNothing ==
  [][(lastOp'.op = "mineNextBlock" /\ pendingTransactions = <<>>)
       => /\ lastOp'.ret = "null"
          /\ lastOp'.event = NoEvent
          /\ chain' = chain
          /\ disk' = disk
          /\ pendingTransactions' = <<>>]_vars

\* C26's case: mineNextBlock was called with a validatorAddress on an
\* empty pool.
C26_Witness ==
  /\ lastOp.op = "mineNextBlock"
  /\ lastOp.args.validatorAddress = "validator"
  /\ lastOp.ret = "null"
  /\ pendingTransactions = <<>>

C27_Supplied ==
  IF lastOp'.op = "mineNextBlock" THEN lastOp'.args.validatorAddress
  ELSE IF lastOp'.op = "addMinedBlock" THEN lastOp'.validatorAddress
  ELSE ""

\* C27: block:validated is emitted exactly when a validatorAddress is
\* supplied and the call appended a block (mineNextBlock on a non-empty
\* pool, or an accepted addMinedBlock); when it is emitted the block is the
\* new tip of the chain and is in the store, and the event carries that
\* block's hash and the supplied validatorAddress; no other call, a
\* rejected import and timer-driven mining included, emits it.
C27_BlockValidatedEvent ==
  [][LET emitted == lastOp'.event.name = "block:validated"
         block == chain'[Len(chain')]
     IN /\ emitted <=> (C27_Supplied # "" /\ chain' # chain)
        /\ emitted
             => /\ chain' = Append(chain, block)
                /\ ToJson(block) \in disk'
                /\ lastOp'.event.blockHash = block.hash
                /\ lastOp'.event.validatorAddress = C27_Supplied
                /\ lastOp'.ret \in {"block", "true"}
        /\ (lastOp'.op = "addMinedBlock" /\ lastOp'.ret = "false")
             => ~emitted]_vars

\* C27's case: an import with a validatorAddress was accepted and the
\* event names the imported block, now the tip.
C27_Witness ==
  /\ lastOp.op = "addMinedBlock"
  /\ lastOp.ret = "true"
  /\ lastOp.validatorAddress = "validator"
  /\ lastOp.event = [name |-> "block:validated",
                     blockHash |-> chain[Len(chain)].hash,
                     validatorAddress |-> "validator"]

(***************************************************************************)
(* Claims about the store and the lookups.                                 *)
(***************************************************************************)
\* C28: when the block directory holds a malformed block file next to
\* well-formed ones, opening the chain does not fail: the malformed file
\* is skipped and the chain is built from the well-formed block files.
C28_CorruptedStoreLoads ==
  [][(lastOp'.op = "open" /\ \E f \in disk : Malformed(f))
       => /\ lastOp'.ret = "chain"
          /\ open'
          /\ (\E f \in disk : ~Malformed(f))
               => {ToJson(chain'[k]) : k \in 1..Len(chain')}
                    = {f \in disk : ~Malformed(f)}]_vars

C29_Holds(b, t) ==
  \/ b.data.type = t
  \/ /\ b.data.type = "transaction_batch"
     /\ "array" \in DOMAIN b.data.payload
     /\ \E k \in 1..Len(b.data.payload.array) :
          b.data.payload.array[k].type = t

\* The records of type t that block b contributes, top-level data first.
C29_RecordsOf(b, t) ==
  (IF b.data.type = t THEN <<b.data>> ELSE <<>>)
    \o (IF b.data.type = "transaction_batch"
           /\ "array" \in DOMAIN b.data.payload
        THEN SelectSeq(b.data.payload.array, LAMBDA tx : tx.type = t)
        ELSE <<>>)

RECURSIVE C29_Records(_, _, _)
C29_Records(c, n, t) ==
  IF n = 0 THEN <<>> ELSE C29_Records(c, n - 1, t) \o C29_RecordsOf(c[n], t)

C29_TransactionsExact ==
  lastOp'.op = "getTransactionsByType"
    => lastOp'.result = C29_Records(chain, Len(chain), lastOp'.type)

C29_BlocksOnce ==
  lastOp'.op = "getBlocksByType"
    => LET result == lastOp'.result
           t == lastOp'.type
       IN /\ {result[i] : i \in 1..Len(result)}
               = {chain[k] : k \in {j \in 1..Len(chain) :
                                      C29_Holds(chain[j], t)}}
          /\ \A i, j \in 1..Len(result) : result[i] = result[j] => i = j

\* C29: getTransactionsByType(t) returns, in chain order, exactly the data
\* of every top-level block of type t together with every record of type t
\* embedded in a transaction_batch block, in its position in the batch,
\* each once; getBlocksByType(t) returns each block that is of type t or
\* contains a record of type t, and each block at most once.
C29_BatchTransparentLookup ==
  [][C29_TransactionsExact /\ C29_BlocksOnce]_vars

\* The batch payloads of the mined blocks c[1..n], in chain order.
RECURSIVE C30_Mined(_, _)
C30_Mined(c, n) ==
  IF n = 0 THEN <<>>
  ELSE C30_Mined(c, n - 1)
         \o (IF c[n].data.type = "transaction_batch"
             THEN c[n].data.payload.array ELSE <<>>)

C30_Ledger(c, pool) == C30_Mined(c, Len(c)) \o pool

\* C30: after any sequence of addTransaction, mineNextBlock, addBlock and
\* timer ticks, the batch payloads of the mined blocks in chain order
\* followed by the pool are the submitted records in submission order,
\* each once: a call that submits a record appends it to that sequence,
\* and every other step leaves the sequence as it was.
C30_RecordConservation ==
  /\ [](LET ledger == C30_Ledger(chain, pendingTransactions)
        IN /\ Len(ledger) = nextId - 1
           /\ \A i \in 1..Len(ledger) : ledger[i].payload.id = i)
  /\ [][LET before == C30_Ledger(chain, pendingTransactions)
            after == C30_Ledger(chain', pendingTransactions')
        IN IF lastOp'.op = "addTransaction"
           THEN /\ after = Append(before, after[Len(after)])
                /\ after[Len(after)] \in ClientRecords(nextId)
           ELSE IF lastOp'.op = "addBlock"
           THEN after = Append(before, lastOp'.args.data)
           ELSE after = before
       ]_vars

\* C30's case: two records were submitted; the timer has mined the first
\* and the second is pending.
C30_Witness ==
  /\ lastOp.op = "timer"
  /\ nextId = 3
  /\ Len(pendingTransactions) = 1
  /\ pendingTransactions[1].payload.id = 2
  /\ C30_Mined(chain, Len(chain)) # <<>>

(***************************************************************************)
(* Claims about the ledger as a whole.                                     *)
(***************************************************************************)
\* C31: every chain operation (mineNextBlock, addBlock, addMinedBlock,
\* processSyncResponse, the timer tick) leaves the chain it found as a
\* prefix of the chain it leaves, so no block is removed, replaced or
\* reordered; index 0 is always the genesis block, with previousHash "0";
\* and the hashes of the blocks of the chain are pairwise distinct.
C31_AppendOnly ==
  /\ [](/\ Len(chain) >= 1
        /\ chain[1].previousHash = ZeroHash
        /\ chain[1].data = genesisData
        /\ \A i, j \in 1..Len(chain) : chain[i].hash = chain[j].hash => i = j)
  /\ [][/\ Len(chain') >= Len(chain)
        /\ \A k \in 1..Len(chain) : chain'[k] = chain[k]]_vars

\* C31's case: a chain that grew by a mined block and then by a block of
\* a SYNC_RESPONSE.
C31_Witness ==
  /\ lastOp.op = "processSyncResponse"
  /\ Len(lastOp.log) = 1
  /\ lastOp.log[1].outcome = "added"
  /\ Len(chain) = 3
  /\ chain[2].data.type = "transaction_batch"
  /\ chain[3] = lastOp.log[1].block

\* The blocks of a chain as their files hold them: the fields of each,
\* without its methods.
C32_Stored(c) == [i \in 1..Len(c) |-> FromJson(ToJson(c[i]))]

\* C32: closing a chain and opening it again on the same directory yields
\* the blocks the in-memory chain had, in the same order, whatever their
\* timestamps (equal ones, or one lower than its predecessor's), so that the
\* reloaded chain keeps chain[i].previousHash = chain[i-1].hash.
C32_ReloadRoundTrip ==
  [][(lastOp.op = "close" /\ lastOp'.op = "open" /\ lastOp'.ret = "chain")
       => /\ chain' = C32_Stored(lastOp.chain)
          /\ \A i \in 2..Len(chain') :
               chain'[i].previousHash = chain'[i - 1].hash]_vars

\* C33: after any sequence of mineNextBlock/addBlock and addMinedBlock
\* calls every block of the chain but the genesis block has a hash whose
\* first `difficulty` characters are '0', imported blocks included.
C33_ProofOfWork ==
  \A i \in 2..Len(chain) : MeetsTarget(chain[i].hash, difficulty)

\* The records a block stores: its own data and, for a batch, the records
\* of its payload.
C34_RecordsOf(b) ==
  {b.data} \cup (IF b.data.type = "transaction_batch" /\ IsArray(b.data.payload)
                 THEN {b.data.payload.array[k] :
                         k \in 1..Len(b.data.payload.array)}
                 ELSE {})

\* C34: every record stored in the chain, as the data of a block or as a
\* record of a transaction_batch payload, has at least requiredSigners
\* signatures.
C34_NoUnderSignedRecord ==
  \A i \in 1..Len(chain) :
    \A r \in C34_RecordsOf(chain[i]) : Len(r.signatures) >= r.requiredSigners

\* The sum of the balances of the addresses of one asset's Map.
RECURSIVE C35_Sum(_)
C35_Sum(map) ==
  IF DOMAIN map = {} THEN 0
  ELSE LET a == CHOOSE x \in DOMAIN map : TRUE
       IN map[a] + C35_Sum([x \in DOMAIN map \ {a} |-> map[x]])

C35_Circulating(assetId) ==
  IF assetId \in DOMAIN balances THEN C35_Sum(balances[assetId]) ELSE 0

\* No totalSupply is negative.
C35_SupplyNotNegative ==
  \A assetId \in DOMAIN assets : assets[assetId].totalSupply >= 0

\* C35: for every asset, after any sequence of successful createAsset,
\* mintAsset, transferAsset and burnAsset calls, the balances of the asset
\* sum to at most its totalSupply, and its totalSupply is not negative.
C35_SupplyBound ==
  /\ \A assetId \in DOMAIN assets :
       C35_Circulating(assetId) <= assets[assetId].totalSupply
  /\ C35_SupplyNotNegative

\* C36: in every reachable state, after any sequence of ledger operations,
\* mining and calculateBalances replays, balance(asset, address) >= 0 for
\* every asset and address.
C36_BalancesNotNegative ==
  \A assetId \in DOMAIN balances :
    \A address \in DOMAIN balances[assetId] :
      getBalance(balances, assetId, address) >= 0

\* C37: under any interleaving of send requests of positive amounts (each
\* admitted only when the sender's cached balance covers the amount, and
\* then pooled) with mining steps and recomputations, no wallet's balance
\* recomputed from the chain is negative.
C37_NoOverspend ==
  lastOp.op \in {"WalletManager.calculateBalances",
                 "handleSendWalletTransaction"}
    => \A address \in DOMAIN wallets : wallets[address] >= 0

\* A peer's VALIDATION_RESPONSE is delivered again: the message just
\* handled came from the same peer, for this node, with the same result.
C38_Redelivered ==
  /\ lastOp.op = "processValidationResponse"
  /\ lastOp'.op = "processValidationResponse"
  /\ lastOp'.peer = lastOp.peer
  /\ lastOp'.targetNodeId = nodeId
  /\ lastOp.targetNodeId = nodeId
  /\ lastOp'.validation = lastOp.validation

\* A response whose targetNodeId is not this node's id leaves the tally as
\* it was.
C38_OthersIgnored ==
  (lastOp'.op = "processValidationResponse" /\ lastOp'.targetNodeId # nodeId)
    => validations' = validations

\* C38: a peer has one vote in the tally of a block hash, so delivering a
\* peer's VALIDATION_RESPONSE for a block again does not change what
\* checkConsensus answers; and a response whose targetNodeId is not this
\* node's id is ignored.
C38_OneVotePerPeer ==
  [][/\ C38_Redelivered
          => \A h \in BlockHashes, threshold \in Thresholds :
               checkConsensus(h, validations', threshold).accepted
                 = checkConsensus(h, validations, threshold).accepted
     /\ C38_OthersIgnored]_vars

\* What a responder whose chain is c \o blocks answers to the SYNC_REQUEST
\* of a requester whose chain is c (processSyncRequest on the responder).
C39_Response(c, blocks) ==
  slice(c \o blocks, startIndex(c \o blocks, getLatestBlock(c).hash))

\* c \o blocks is a chain a responder can hold: every block of it went in
\* through mineNextBlock or addMinedBlock, so its hash is the hash of its
\* content, it has the signatures it requires and it points at the block
\* before it.  After a restart the responder's blocks are plain objects.
C39_ResponderHolds(c, blocks) ==
  /\ Len(blocks) >= 1
  /\ \A i \in 1..Len(blocks) :
       /\ blocks[i].hash = calculateHash(blocks[i])
       /\ Len(blocks[i].data.signatures) >= blocks[i].data.requiredSigners
       /\ blocks[i].previousHash = (c \o blocks)[Len(c) + i - 1].hash

\* C39: when the requester's chain is a prefix of the responder's chain and
\* the requester appends nothing between its SYNC_REQUEST and the matching
\* SYNC_RESPONSE, processing the response leaves the requester with the
\* responder's chain, and processing it again changes nothing.
C39_SyncConverges ==
  [][(/\ lastOp'.op = "processSyncResponse"
      /\ lastOp'.data.targetNodeId = nodeId
      /\ C39_ResponderHolds(chain, lastOp'.data.blocks)
      /\ lastOp'.data.blocks = C39_Response(chain, lastOp'.data.blocks))
       => /\ chain' = chain \o lastOp'.data.blocks
          /\ syncBlocks(lastOp'.data.blocks, 1, chain', disk', diskOk').chain
               = chain']_vars

====
